---- MODULE Spec2Model ----
(***************************************************************************)
(* A model of the OBKV table client (src/src/client/table_client.rs):      *)
(* the metadata cache with its per-table mutexes, the metadata refresh,    *)
(* the retrying execution engine, batch fan-out, query permits and the     *)
(* row-key element registry.  Client threads are modelled as small         *)
(* program counters (th[t].pc) walking through the bodies of the methods;  *)
(* one action is one step between two synchronisation points.              *)
(***************************************************************************)
EXTENDS Integers, Sequences, FiniteSets, TLC

\* ------------------------------------------------------------------ bounds

\* The clock runs from StartTime for MaxTicks ticks (time units of the model).
MaxTicks == 1
\* The failure counters (AtomicUsize in the code) stop counting at MaxCount; the
\* configured ceilings are below it, so every comparison with a ceiling is exact.
MaxCount == 2

\* The client threads sharing one ObTableClient.
Threads == {1, 2}
Tables == {"t1", "t2"}
Addrs == {"a", "b", "c"}

\* current_time_millis() is far larger than every configured interval, so the
\* clock starts at a value at which a timestamp of 0 is already expired.
StartTime == 2

\* The longest batch, in operations.
MaxOps == 3
\* The longest list of row-key columns.
MaxCols == 2

\* ------------------------------------------------------------------- state

VARIABLES
    now,                    \* current_time_millis()
    config,                 \* ClientConfig, fixed after construction
    initialized,            \* ObTableClientInner.initialized
    closed,                 \* ObTableClientInner.closed
    table_roster,           \* keys of table_roster: addr -> Arc<ObTable>
    server_roster,          \* ServerRoster.roster (members)
    max_priority,           \* ServerRoster.max_priority (cached)
    ocp_model,              \* OcpModel.observer_addrs
    connection_pools,       \* keys of connection_pools: addr -> Arc<ConnPool>
    table_locations,        \* table name -> TableEntry (NoEntry when absent)
    table_mutexs,           \* table name -> mutex id (0 when absent)
    mutex_holder,           \* mutex id -> thread holding it (0 when free)
    table_row_key_element,  \* table name -> column ordinal map (NoMap when absent)
    table_continuous_failures, \* table name -> counter id (0 when absent)
    counter_value,          \* counter id -> value of the AtomicUsize
    table_batch_op_thread_pools, \* set of table names that have a pool
    refresh_failures,       \* table_entry_refresh_continuous_failure_count
    refresh_metadata_mutex, \* thread holding refresh_metadata_mutex (0 when free)
    last_refresh_metadata_ts,
    permits_in_use,         \* Permits: permits currently held by a PermitGuard
    rpcs_in_flight,         \* query RPCs sent and not yet answered
    backend_tables,         \* the tables that exist on the backends
    backend_rows,           \* table name -> row keys of the rows it holds
    truncated,              \* history: table name -> whether truncate_table has
                            \* succeeded with no insert since, and the rows the
                            \* last truncate_table found
    th                      \* per-thread program counter and locals

vars == << now, config, initialized, closed, table_roster, server_roster,
           max_priority, ocp_model, connection_pools, table_locations, table_mutexs,
           mutex_holder, table_row_key_element, table_continuous_failures,
           counter_value, table_batch_op_thread_pools, refresh_failures,
           refresh_metadata_mutex,
           last_refresh_metadata_ts, permits_in_use, rpcs_in_flight,
           backend_tables, backend_rows, truncated, th >>

\* Everything but the thread records and the named variables.
clientVars == << initialized, closed, table_roster, server_roster, max_priority,
                 ocp_model, connection_pools, last_refresh_metadata_ts,
                 refresh_metadata_mutex >>
cacheVars == << table_locations, table_mutexs, mutex_holder >>
perTableVars == << table_row_key_element, table_continuous_failures, counter_value,
                   table_batch_op_thread_pools >>
queryVars == << permits_in_use, rpcs_in_flight >>
\* The data of the backends, and the history of the calls that change it.
backendVars == << backend_tables, backend_rows, truncated >>

\* ----------------------------------------------------------------- values

\* A table entry: its refresh time, its partitioning and the address of the leader
\* replica of its partitions ("none" when the entry names no leader).
NoEntry == [rt |-> -1, shape |-> "none", leader |-> "none", rke |-> {}]
\* A row-key element map is a set of <<column, ordinal>> pairs.
NoMap == [present |-> FALSE, map |-> {}]

MutexIds == 1 .. (Cardinality(Threads) + Cardinality(Tables))
CounterIds == 1 .. (Cardinality(Threads) + Cardinality(Tables))

\* An error value with the two predicates the engine asks of it.
NoError == [kind |-> "none", need_retry |-> FALSE, need_refresh |-> FALSE]
\* A batch: the partition each operation's row key maps to, and the atomic flag.
NoBatch == [ops |-> << >>, atomic |-> FALSE]

\* const MAX_PRIORITY: isize = 50
MAX_PRIORITY == 50

\* No truncate_table has succeeded for the table.
NotTruncated == [since |-> FALSE, found |-> {}]

\* No SQL statement given.
NoSql == [kind |-> "none", table |-> "t1"]

\* No key range given.
NoRange == [start |-> 0, start_inclusive |-> FALSE, end |-> 0, end_inclusive |-> FALSE]

\* The metadata a reload can write: the directory model, the registry of
\* backend handles, the server roster and the time of the last reload.
NoSnapshot == [ocp_model |-> {}, table_roster |-> {}, server_roster |-> {}, ts |-> 0]

IdleThread ==
    [pc |-> "idle", op |-> "none", table |-> "t1", res |-> "none",
     \* get_or_refresh_table_entry_with_blocking
     g_table |-> "t1", g_refresh |-> FALSE, g_blocking |-> FALSE, g_ret |-> "none",
     g_res |-> "none", g_entry |-> NoEntry, mtx |-> 0, locked |-> FALSE,
     retry_num |-> 0, retry_times |-> 0,
     \* the calls of refresh_table_entry this refresh has made
     locates |-> 0,
     \* sync_refresh_metadata
     s_ret |-> "none", s_res |-> "none", root |-> [a \in Addrs |-> "absent"],
     servers |-> {},
     \* what the reload found when it took refresh_metadata_mutex
     before |-> NoSnapshot,
     \* refresh_all_table_entries
     todo |-> {},
     \* execute / execute_batch / execute_query / execute_stream
     attempt |-> 0, err |-> NoError, ctr |-> 0, key |-> 0, batch |-> NoBatch,
     sent |-> << >>, nsent |-> 0, results |-> << >>,
     \* the partitions whose sub-batch its backend executed in the attempt of
     \* execute_batch that failed last
     executed |-> {},
     \* passed_ms of the cached entry the call found fresh enough to return, or -1
     g_age |-> -1,
     \* add_row_key_element
     columns |-> << >>,
     \* ServerRoster: the priority argument, the value loaded or computed, and
     \* the value max_priority() returns
     priority |-> 0, p |-> 0, clamped |-> 0,
     \* get_tables: the key range, the (part_id, leader) pairs still to be given
     \* a handle, the (part_id, handle) pairs of the result, the error message
     range |-> NoRange, pairs |-> << >>, handles |-> << >>, msg |-> "none",
     \* the part_id get_table returns, or the one an error message names
     part_id |-> 0,
     \* execute: the operation type, the affected rows and the column map of the
     \* result ("row" for the columns of a row, "empty" for none)
     operation_type |-> "none", affected |-> 0, value |-> "empty",
     \* execute_sql: the statement and its result; check_table_exists: its answer
     sql |-> NoSql, sql_res |-> "none", exists |-> FALSE,
     \* PartFuncType: the index given to from_i32, the variant it returns and
     \* the predicates that hold of the variant
     index |-> 0, part_func_type |-> "UNKNOWN", holds |-> {}]

\* ---------------------------------------------------------------- helpers

Min(a, b) == IF a <= b THEN a ELSE b
Max(a, b) == IF a >= b THEN a ELSE b

\* The cached value clamped from above only.
MaxPriorityClampedAbove ==
    IF max_priority > MAX_PRIORITY THEN MAX_PRIORITY ELSE max_priority

\* ServerRoster::max_priority: the cached value clamped to [-50, 50].
MaxPriority ==
    IF max_priority < -MAX_PRIORITY THEN -MAX_PRIORITY
    ELSE IF max_priority > MAX_PRIORITY THEN MAX_PRIORITY
    ELSE max_priority

\* Lines 831-843: interval_ms, the smaller of base / 2^max_priority and the
\* ceiling, as a fraction num / den of whole numbers.
IntervalMs(p) ==
    LET base == config.table_entry_refresh_interval_base
        ceiling == config.table_entry_refresh_interval_ceiling
    IN IF p >= 0
       THEN IF base <= ceiling * (2 ^ p) THEN [num |-> base, den |-> 2 ^ p]
            ELSE [num |-> ceiling, den |-> 1]
       ELSE IF base * (2 ^ (0 - p)) <= ceiling
            THEN [num |-> base * (2 ^ (0 - p)), den |-> 1]
            ELSE [num |-> ceiling, den |-> 1]

\* need_refresh_table_entry with the ratio inverted: base * 2^max_priority.
NeedRefreshMultiplies(entry) ==
    LET p == MaxPriority
        passed == now - entry.rt
        base == config.table_entry_refresh_interval_base
        ceiling == config.table_entry_refresh_interval_ceiling
        overInterval == IF p >= 0 THEN passed >= base * (2 ^ p)
                        ELSE passed * (2 ^ (0 - p)) >= base
    IN  overInterval \/ passed >= ceiling

\* need_refresh_table_entry: passed_ms >= min(base / 2^max_priority, ceiling),
\* with the division by the power of two written without fractions.
NeedRefresh(entry) ==
    LET p == MaxPriority
        passed == now - entry.rt
        base == config.table_entry_refresh_interval_base
        ceiling == config.table_entry_refresh_interval_ceiling
        overInterval == IF p >= 0 THEN passed * (2 ^ p) >= base
                        ELSE passed >= base * (2 ^ (0 - p))
    IN  overInterval \/ passed >= ceiling

\* The entry the catalog of the backends holds for a table: its partitioning.
IsPartitionTable(shape) == shape \notin {"none", "plain"}

\* A mutex id that no table and no thread refers to (Arc::new(Mutex::new(0))).
FreeMutexIds ==
    {m \in MutexIds : /\ \A tb \in Tables : table_mutexs[tb] # m
                      /\ \A u \in Threads : th[u].mtx # m}
FreshMutex == CHOOSE m \in FreeMutexIds : \A k \in FreeMutexIds : m <= k

\* A counter no table and no thread refers to (Arc::new(AtomicUsize::new(0))).
FreeCounterIds ==
    {c \in CounterIds : /\ \A tb \in Tables : table_continuous_failures[tb] # c
                        /\ \A u \in Threads : th[u].ctr # c}
FreshCounter == CHOOSE c \in FreeCounterIds : \A k \in FreeCounterIds : c <= k

\* Return from get_or_refresh_table_entry_with_blocking to the caller's label.
GReturn(r, res, entry) ==
    [r EXCEPT !.pc = r.g_ret, !.g_res = res, !.g_entry = entry, !.mtx = 0,
              !.locked = FALSE, !.retry_num = 0, !.retry_times = 0, !.locates = 0]

\* Entering get_or_refresh_table_entry_with_blocking(table, refresh, blocking).
GCall(r, tb, refresh, blocking, ret) ==
    [r EXCEPT !.pc = "g_fast", !.g_table = tb, !.g_refresh = refresh,
              !.g_blocking = blocking, !.g_ret = ret, !.g_res = "none",
              !.g_entry = NoEntry, !.g_age = -1]

\* Entering sync_refresh_metadata().
SCall(r, ret) == [r EXCEPT !.pc = "s_check", !.s_ret = ret, !.s_res = "none"]

\* Return from sync_refresh_metadata to the caller's label.
SReturn(r, res) ==
    [r EXCEPT !.pc = r.s_ret, !.s_res = res, !.root = [a \in Addrs |-> "absent"],
              !.servers = {}, !.before = NoSnapshot]

\* Lines 412-416: the row-key element map of HBase mode.
HBaseRowKeyElement == {<< "K", 0 >>, << "Q", 1 >>, << "T", 2 >>}

\* refresh_table_entry: the entry a successful locator call yields.  With an
\* entry given only the locations are reloaded (load_table_location_with_priority),
\* otherwise the whole entry is loaded (load_table_entry_with_priority).
LoadedEntry(tb, existing, leader) ==
    IF existing # NoEntry THEN [existing EXCEPT !.rt = now, !.leader = leader]
    ELSE [rt |-> now, shape |-> config.catalog[tb], leader |-> leader,
          rke |-> IF ~IsPartitionTable(config.catalog[tb]) THEN {}
                  ELSE IF config.running_mode = "HBase" THEN HBaseRowKeyElement
                  ELSE table_row_key_element[tb].map]

\* refresh_table_entry with the match on the registered map left out.
RowKeyElementUnchecked(tb, existing) == FALSE

\* refresh_table_entry: a freshly loaded partitioned entry needs the row-key
\* element map in Normal mode; HBase mode brings its own.
RowKeyElementMissing(tb, existing) ==
    /\ existing = NoEntry
    /\ IsPartitionTable(config.catalog[tb])
    /\ config.running_mode = "Normal"
    /\ table_row_key_element[tb] = NoMap

\* ------------------------------- get_or_refresh_table_entry_with_blocking

\* GFast that looks at the age of the entry whatever refresh is.
GFastChecksAge(t) ==
    /\ th[t].pc = "g_fast"
    /\ LET e == table_locations[th[t].g_table] IN
         IF e # NoEntry /\ ~NeedRefresh(e)
         THEN th' = [th EXCEPT ![t] = GReturn([@ EXCEPT !.g_age = now - e.rt], "ok", e)]
         ELSE th' = [th EXCEPT ![t].pc = "g_mutex"]
    /\ UNCHANGED << now, config, backendVars, clientVars, cacheVars, perTableVars, queryVars,
                    refresh_failures >>

\* Lines 880-886: the lock-free look at the cache.
GFast(t) ==
    /\ th[t].pc = "g_fast"
    /\ LET e == table_locations[th[t].g_table] IN
         IF e # NoEntry /\ (~th[t].g_refresh \/ ~NeedRefresh(e))
         THEN th' = [th EXCEPT ![t] = GReturn([@ EXCEPT !.g_age = now - e.rt], "ok", e)]
         ELSE th' = [th EXCEPT ![t].pc = "g_mutex"]
    /\ UNCHANGED << now, config, backendVars, clientVars, cacheVars, perTableVars, queryVars,
                    refresh_failures >>

\* Lines 889-921: the table's mutex, created under the write lock if absent.
GMutex(t) ==
    /\ th[t].pc = "g_mutex"
    /\ LET tb == th[t].g_table IN
         IF table_mutexs[tb] # 0
         THEN /\ th' = [th EXCEPT ![t].pc = "g_lock", ![t].mtx = table_mutexs[tb]]
              /\ UNCHANGED table_mutexs
         ELSE /\ table_mutexs' = [table_mutexs EXCEPT ![tb] = FreshMutex]
              /\ th' = [th EXCEPT ![t].pc = "g_lock", ![t].mtx = FreshMutex]
    /\ UNCHANGED << now, config, backendVars, clientVars, table_locations, mutex_holder,
                    perTableVars, queryVars, refresh_failures >>

\* GLock with a try_lock whose failure is ignored: the refresh goes on unlocked.
GLockIgnoresContention(t) ==
    /\ th[t].pc = "g_lock"
    /\ \/ /\ mutex_holder[th[t].mtx] = 0
          /\ mutex_holder' = [mutex_holder EXCEPT ![th[t].mtx] = t]
          /\ th' = [th EXCEPT ![t].pc = "g_dcheck", ![t].locked = TRUE]
       \/ /\ mutex_holder[th[t].mtx] # 0
          /\ ~th[t].g_blocking
          /\ th' = [th EXCEPT ![t].pc = "g_dcheck"]
          /\ UNCHANGED mutex_holder
    /\ UNCHANGED << now, config, backendVars, clientVars, table_locations, table_mutexs,
                    perTableVars, queryVars, refresh_failures >>

\* Lines 924-936: lock() waits for the mutex, try_lock() gives up with Lock.
GLock(t) ==
    /\ th[t].pc = "g_lock"
    /\ \/ /\ mutex_holder[th[t].mtx] = 0
          /\ mutex_holder' = [mutex_holder EXCEPT ![th[t].mtx] = t]
          /\ th' = [th EXCEPT ![t].pc = "g_dcheck", ![t].locked = TRUE]
       \/ /\ mutex_holder[th[t].mtx] # 0
          /\ ~th[t].g_blocking
          /\ th' = [th EXCEPT ![t] = GReturn(@, "Lock", NoEntry)]
          /\ UNCHANGED mutex_holder
    /\ UNCHANGED << now, config, backendVars, clientVars, table_locations, table_mutexs,
                    perTableVars, queryVars, refresh_failures >>

\* Lines 943-960: the second look at the cache, under the mutex; then the
\* number of attempts is table_entry_refresh_try_times capped by the roster size.
GDoubleCheck(t) ==
    /\ th[t].pc = "g_dcheck"
    /\ LET e == table_locations[th[t].g_table]
           server_size == Cardinality(server_roster)
       IN IF e # NoEntry /\ (~th[t].g_refresh \/ ~NeedRefresh(e))
          THEN th' = [th EXCEPT ![t].pc = "g_exit", ![t].g_res = "ok", ![t].g_entry = e,
                                ![t].g_age = now - e.rt]
          ELSE th' = [th EXCEPT ![t].pc = "g_loop", ![t].retry_num = 0,
                                ![t].retry_times =
                                    IF config.table_entry_refresh_try_times > server_size
                                    THEN server_size
                                    ELSE config.table_entry_refresh_try_times]
    /\ UNCHANGED << now, config, backendVars, clientVars, cacheVars, perTableVars, queryVars,
                    refresh_failures >>

\* Lines 970-1010: one turn of the refresh loop.  The locator call succeeds or
\* fails; a failure counts, and at the ceiling the metadata is refreshed.  With the
\* attempts used up the metadata is refreshed before the last locator call.
GLoop(t) ==
    /\ th[t].pc = "g_loop"
    /\ LET tb == th[t].g_table
           existing == table_locations[tb]
       IN \/ /\ th[t].retry_num < th[t].retry_times
             /\ ~RowKeyElementMissing(tb, existing)
             /\ refresh_failures' = 0
             /\ \E leader \in config.leaders :
                  th' = [th EXCEPT ![t].pc = "g_insert", ![t].locates = @ + 1,
                                   ![t].g_entry = LoadedEntry(tb, existing, leader)]
          \/ /\ th[t].retry_num < th[t].retry_times
             /\ refresh_failures' = Min(refresh_failures + 1, MaxCount)
             /\ IF refresh_failures >= config.table_entry_refresh_continuous_failure_ceiling
                THEN th' = [th EXCEPT ![t] = SCall([@ EXCEPT !.locates = @ + 1], "g_synced")]
                ELSE th' = [th EXCEPT ![t].retry_num = @ + 1, ![t].locates = @ + 1]
          \/ /\ th[t].retry_num >= th[t].retry_times
             /\ th' = [th EXCEPT ![t] = SCall(@, "g_final")]
             /\ UNCHANGED refresh_failures
    /\ UNCHANGED << now, config, backendVars, clientVars, cacheVars, perTableVars, queryVars >>

\* Lines 976-984: the loaded entry goes into table_locations under the write lock.
GInsert(t) ==
    /\ th[t].pc = "g_insert"
    /\ table_locations' = [table_locations EXCEPT ![th[t].g_table] = th[t].g_entry]
    /\ th' = [th EXCEPT ![t].pc = "g_exit", ![t].g_res = "ok"]
    /\ UNCHANGED << now, config, backendVars, clientVars, table_mutexs, mutex_holder,
                    perTableVars, queryVars, refresh_failures >>

\* GSynced without the store of zero after the metadata refresh.
GSyncedKeepsCount(t) ==
    /\ th[t].pc = "g_synced"
    /\ IF th[t].s_res = "err"
       THEN th' = [th EXCEPT ![t].pc = "g_exit", ![t].g_res = "err"]
       ELSE th' = [th EXCEPT ![t].pc = "g_loop", ![t].retry_num = @ + 1]
    /\ UNCHANGED << now, config, backendVars, clientVars, cacheVars, perTableVars, queryVars,
                    refresh_failures >>

\* Lines 998-1003: back from sync_refresh_metadata inside the loop.
GSynced(t) ==
    /\ th[t].pc = "g_synced"
    /\ IF th[t].s_res = "err"
       THEN /\ th' = [th EXCEPT ![t].pc = "g_exit", ![t].g_res = "err"]
            /\ UNCHANGED refresh_failures
       ELSE /\ refresh_failures' = 0
            /\ th' = [th EXCEPT ![t].pc = "g_loop", ![t].retry_num = @ + 1]
    /\ UNCHANGED << now, config, backendVars, clientVars, cacheVars, perTableVars, queryVars >>

\* Lines 1010-1011: the last locator call; its entry is returned, not inserted.
\* The call fails with the locator's error or, the entry loaded, with the
\* NotFound of the missing row-key element map (lines 402-410).
GFinal(t) ==
    /\ th[t].pc = "g_final"
    /\ LET tb == th[t].g_table
           existing == table_locations[tb]
       IN \/ /\ th[t].s_res = "err"
             /\ th' = [th EXCEPT ![t].pc = "g_exit", ![t].g_res = "err"]
             /\ UNCHANGED refresh_failures
          \/ /\ th[t].s_res # "err"
             /\ ~RowKeyElementMissing(tb, existing)
             /\ refresh_failures' = 0
             /\ \E leader \in config.leaders :
                  th' = [th EXCEPT ![t].pc = "g_exit", ![t].g_res = "ok",
                                   ![t].locates = @ + 1,
                                   ![t].g_entry = LoadedEntry(tb, existing, leader)]
          \/ /\ th[t].s_res # "err"
             /\ th' = [th EXCEPT ![t].pc = "g_exit", ![t].g_res = "err",
                                 ![t].locates = @ + 1]
             /\ UNCHANGED refresh_failures
          \/ /\ th[t].s_res # "err"
             /\ RowKeyElementMissing(tb, existing)
             /\ th' = [th EXCEPT ![t].pc = "g_exit", ![t].g_res = "NotFound",
                                 ![t].locates = @ + 1]
             /\ UNCHANGED refresh_failures
    /\ UNCHANGED << now, config, backendVars, clientVars, cacheVars, perTableVars, queryVars >>

\* GExit with the guard dropped on the Ok return only.
GExitKeepsMutexOnError(t) ==
    /\ th[t].pc = "g_exit"
    /\ mutex_holder' = IF th[t].g_res = "ok"
                       THEN [mutex_holder EXCEPT ![th[t].mtx] = 0]
                       ELSE mutex_holder
    /\ th' = [th EXCEPT ![t] = GReturn(@, th[t].g_res,
                                       IF th[t].g_res = "ok" THEN th[t].g_entry ELSE NoEntry)]
    /\ UNCHANGED << now, config, backendVars, clientVars, table_locations, table_mutexs,
                    perTableVars, queryVars, refresh_failures >>

\* The return with the mutex held: the guard _lock is dropped.
GExit(t) ==
    /\ th[t].pc = "g_exit"
    /\ mutex_holder' = [mutex_holder EXCEPT ![th[t].mtx] = 0]
    /\ th' = [th EXCEPT ![t] = GReturn(@, th[t].g_res,
                                       IF th[t].g_res = "ok" THEN th[t].g_entry ELSE NoEntry)]
    /\ UNCHANGED << now, config, backendVars, clientVars, table_locations, table_mutexs,
                    perTableVars, queryVars, refresh_failures >>

GetOrRefreshStep(t) ==
    \/ GFast(t) \/ GMutex(t) \/ GLock(t) \/ GDoubleCheck(t) \/ GLoop(t)
    \/ GInsert(t) \/ GSynced(t) \/ GFinal(t) \/ GExit(t)

\* --------------------------------------------------- sync_refresh_metadata

\* is_already_refreshed
IsAlreadyRefreshed == now - last_refresh_metadata_ts < config.metadata_refresh_interval

\* The addresses of the is_active() replicas of a root-server entry.
ActiveAddrs(root) == {a \in Addrs : root[a] = "active"}

\* The roster update without the retain: no handle is dropped.
ReconcileKeepsAll(roster, root) == roster \cup ActiveAddrs(root)

\* Lines 1233-1264: every active replica gets a handle, then only the handles of
\* the active replicas are retained.
Reconcile(roster, root) ==
    LET servers == ActiveAddrs(root)
        added == roster \cup servers
    IN  {a \in added : a \in servers}

\* Lines 1190-1194.
SCheck(t) ==
    /\ th[t].pc = "s_check"
    /\ IF IsAlreadyRefreshed
       THEN th' = [th EXCEPT ![t] = SReturn(@, "ok")]
       ELSE th' = [th EXCEPT ![t].pc = "s_lock"]
    /\ UNCHANGED << now, config, backendVars, clientVars, cacheVars, perTableVars, queryVars,
                    refresh_failures >>

\* Line 1196.
SLock(t) ==
    /\ th[t].pc = "s_lock"
    /\ refresh_metadata_mutex = 0
    /\ refresh_metadata_mutex' = t
    /\ th' = [th EXCEPT ![t].pc = "s_recheck",
                        ![t].before = [ocp_model |-> ocp_model, table_roster |-> table_roster,
                                       server_roster |-> server_roster,
                                       ts |-> last_refresh_metadata_ts]]
    /\ UNCHANGED << now, config, backendVars, initialized, closed, table_roster, server_roster,
                    max_priority, ocp_model, connection_pools, last_refresh_metadata_ts,
                    cacheVars, perTableVars, queryVars, refresh_failures >>

\* SRecheck without the second look at the timestamp: whoever gets the mutex
\* reloads.
SRecheckSkipped(t) ==
    /\ th[t].pc = "s_recheck"
    /\ th' = [th EXCEPT ![t].pc = "s_ocp"]
    /\ UNCHANGED << now, config, backendVars, clientVars, cacheVars, perTableVars, queryVars,
                    refresh_failures >>

\* Lines 1198-1202.
SRecheck(t) ==
    /\ th[t].pc = "s_recheck"
    /\ IF IsAlreadyRefreshed
       THEN /\ th' = [th EXCEPT ![t] = SReturn(@, "ok")]
            /\ refresh_metadata_mutex' = 0
       ELSE /\ th' = [th EXCEPT ![t].pc = "s_ocp"]
            /\ UNCHANGED refresh_metadata_mutex
    /\ UNCHANGED << now, config, backendVars, initialized, closed, table_roster, server_roster,
                    max_priority, ocp_model, connection_pools, last_refresh_metadata_ts,
                    cacheVars, perTableVars, queryVars, refresh_failures >>

\* SOcp with the guard leaked when the load fails: the call returns the error
\* with refresh_metadata_mutex still locked.
SOcpKeepsMutex(t) ==
    /\ th[t].pc = "s_ocp"
    /\ \/ /\ th' = [th EXCEPT ![t] = SReturn(@, "err")]
          /\ UNCHANGED ocp_model
       \/ \E obs \in config.observers :
            /\ ocp_model' = obs
            /\ th' = [th EXCEPT ![t].pc = "s_root"]
    /\ UNCHANGED << now, config, backendVars, initialized, closed, table_roster, server_roster,
                    max_priority, connection_pools, last_refresh_metadata_ts,
                    refresh_metadata_mutex, cacheVars, perTableVars, queryVars,
                    refresh_failures >>

\* Lines 1204-1215: the directory is reloaded and stored, or the load fails.
SOcp(t) ==
    /\ th[t].pc = "s_ocp"
    /\ \/ /\ th' = [th EXCEPT ![t] = SReturn(@, "err")]
          /\ refresh_metadata_mutex' = 0
          /\ UNCHANGED ocp_model
       \/ \E obs \in config.observers :
            /\ ocp_model' = obs
            /\ th' = [th EXCEPT ![t].pc = "s_root"]
            /\ UNCHANGED refresh_metadata_mutex
    /\ UNCHANGED << now, config, backendVars, initialized, closed, table_roster, server_roster,
                    max_priority, connection_pools, last_refresh_metadata_ts,
                    cacheVars, perTableVars, queryVars, refresh_failures >>

\* Lines 1217-1227: the root-server entry is loaded from an observer, or not.
SRoot(t) ==
    /\ th[t].pc = "s_root"
    /\ \/ /\ th' = [th EXCEPT ![t] = SReturn(@, "err")]
          /\ refresh_metadata_mutex' = 0
       \/ \E root \in [Addrs -> {"active", "inactive", "absent"}] :
            /\ \A a \in Addrs \ config.addrs : root[a] = "absent"
            /\ th' = [th EXCEPT ![t].pc = "s_roster", ![t].root = root]
            /\ UNCHANGED refresh_metadata_mutex
    /\ UNCHANGED << now, config, backendVars, initialized, closed, table_roster, server_roster,
                    max_priority, ocp_model, connection_pools, last_refresh_metadata_ts,
                    cacheVars, perTableVars, queryVars, refresh_failures >>

\* SRoster with the handles of the replicas that are not active dropped before
\* the new ones are built, so that a failure leaves the registry without them.
SRosterRetainsFirst(t) ==
    /\ th[t].pc = "s_roster"
    /\ LET servers == ActiveAddrs(th[t].root)
           needed == servers \ table_roster
       IN \/ /\ table_roster' = Reconcile(table_roster, th[t].root)
             /\ connection_pools' = connection_pools \cup needed
             /\ th' = [th EXCEPT ![t].pc = "s_reset", ![t].servers = servers]
             /\ UNCHANGED refresh_metadata_mutex
          \/ \E f \in needed \ connection_pools : \E added \in SUBSET (needed \ {f}) :
               /\ table_roster' = (table_roster \cap servers) \cup added
               /\ connection_pools' = connection_pools \cup added
               /\ th' = [th EXCEPT ![t] = SReturn(@, "err")]
               /\ refresh_metadata_mutex' = 0
    /\ UNCHANGED << now, config, backendVars, initialized, closed, server_roster, max_priority,
                    ocp_model, last_refresh_metadata_ts, cacheVars, perTableVars,
                    queryVars, refresh_failures >>

\* Lines 1229-1265, under the write lock of table_roster.  Building the handle of
\* an address that has no connection pool yet can fail (add_ob_table_to_roster,
\* get_or_create_conn_pool); the handles added before the failing one stay.
SRoster(t) ==
    /\ th[t].pc = "s_roster"
    /\ LET servers == ActiveAddrs(th[t].root)
           needed == servers \ table_roster
       IN \/ /\ table_roster' = Reconcile(table_roster, th[t].root)
             /\ connection_pools' = connection_pools \cup needed
             /\ th' = [th EXCEPT ![t].pc = "s_reset", ![t].servers = servers]
             /\ UNCHANGED refresh_metadata_mutex
          \/ \E f \in needed \ connection_pools : \E added \in SUBSET (needed \ {f}) :
               /\ table_roster' = table_roster \cup added
               /\ connection_pools' = connection_pools \cup added
               /\ th' = [th EXCEPT ![t] = SReturn(@, "err")]
               /\ refresh_metadata_mutex' = 0
    /\ UNCHANGED << now, config, backendVars, initialized, closed, server_roster, max_priority,
                    ocp_model, last_refresh_metadata_ts, cacheVars, perTableVars,
                    queryVars, refresh_failures >>

\* Line 1267 and ServerRoster::reset (lines 120-123).
SReset(t) ==
    /\ th[t].pc = "s_reset"
    /\ max_priority' = 0
    /\ server_roster' = th[t].servers
    /\ th' = [th EXCEPT ![t].pc = "s_ts"]
    /\ UNCHANGED << now, config, backendVars, initialized, closed, table_roster, ocp_model,
                    connection_pools, last_refresh_metadata_ts, refresh_metadata_mutex,
                    cacheVars, perTableVars, queryVars, refresh_failures >>

\* STimestamp with the guard of refresh_metadata_mutex leaked: the call returns
\* with the mutex still locked.
STimestampKeepsMutex(t) ==
    /\ th[t].pc = "s_ts"
    /\ last_refresh_metadata_ts' = now
    /\ th' = [th EXCEPT ![t] = SReturn(@, "ok")]
    /\ UNCHANGED << now, config, backendVars, initialized, closed, table_roster, server_roster,
                    max_priority, ocp_model, connection_pools, refresh_metadata_mutex,
                    cacheVars, perTableVars, queryVars, refresh_failures >>

\* Lines 1268-1271.
STimestamp(t) ==
    /\ th[t].pc = "s_ts"
    /\ last_refresh_metadata_ts' = now
    /\ refresh_metadata_mutex' = 0
    /\ th' = [th EXCEPT ![t] = SReturn(@, "ok")]
    /\ UNCHANGED << now, config, backendVars, initialized, closed, table_roster, server_roster,
                    max_priority, ocp_model, connection_pools, cacheVars, perTableVars,
                    queryVars, refresh_failures >>

SyncRefreshStep(t) ==
    \/ SCheck(t) \/ SLock(t) \/ SRecheck(t) \/ SOcp(t) \/ SRoot(t) \/ SRoster(t)
    \/ SReset(t) \/ STimestamp(t)

\* The end of a public call: its result stays visible until the caller goes on.
Finish(r, res) ==
    [IdleThread EXCEPT !.pc = "done", !.op = r.op, !.table = r.table, !.res = res,
                       !.attempt = r.attempt, !.err = r.err, !.key = r.key,
                       !.batch = r.batch, !.sent = r.sent, !.nsent = r.nsent,
                       !.results = r.results, !.columns = r.columns,
                       !.priority = r.priority, !.p = r.p, !.clamped = r.clamped,
                       !.range = r.range, !.handles = r.handles, !.msg = r.msg,
                       !.part_id = r.part_id,
                       !.operation_type = r.operation_type, !.affected = r.affected,
                       !.value = r.value, !.sql = r.sql, !.sql_res = r.sql_res,
                       !.exists = r.exists]

\* -------------------------------------------------------- invalidate_table

\* Lines 1056-1062: without a mutex entry for the table nothing is removed.
IGet(t) ==
    /\ th[t].pc = "i_get"
    /\ IF table_mutexs[th[t].table] = 0
       THEN th' = [th EXCEPT ![t] = Finish(@, "ok")]
       ELSE th' = [th EXCEPT ![t].pc = "i_lock", ![t].mtx = table_mutexs[th[t].table]]
    /\ UNCHANGED << now, config, backendVars, clientVars, cacheVars, perTableVars, queryVars,
                    refresh_failures >>

\* Line 1064.
ILock(t) ==
    /\ th[t].pc = "i_lock"
    /\ mutex_holder[th[t].mtx] = 0
    /\ mutex_holder' = [mutex_holder EXCEPT ![th[t].mtx] = t]
    /\ th' = [th EXCEPT ![t].pc = "i_remove"]
    /\ UNCHANGED << now, config, backendVars, clientVars, table_locations, table_mutexs,
                    perTableVars, queryVars, refresh_failures >>

\* Lines 1065-1066: the entry is removed and the mutex released.
IRemove(t) ==
    /\ th[t].pc = "i_remove"
    /\ table_locations' = [table_locations EXCEPT ![th[t].table] = NoEntry]
    /\ mutex_holder' = [mutex_holder EXCEPT ![th[t].mtx] = 0]
    /\ th' = [th EXCEPT ![t].pc = "i_rke"]
    /\ UNCHANGED << now, config, backendVars, clientVars, table_mutexs, perTableVars, queryVars,
                    refresh_failures >>

\* Line 1067.
IRowKey(t) ==
    /\ th[t].pc = "i_rke"
    /\ table_row_key_element' = [table_row_key_element EXCEPT ![th[t].table] = NoMap]
    /\ th' = [th EXCEPT ![t].pc = "i_fail"]
    /\ UNCHANGED << now, config, backendVars, clientVars, cacheVars, table_continuous_failures,
                    counter_value, table_batch_op_thread_pools, queryVars,
                    refresh_failures >>

\* Line 1068.
IFailures(t) ==
    /\ th[t].pc = "i_fail"
    /\ table_continuous_failures' = [table_continuous_failures EXCEPT ![th[t].table] = 0]
    /\ th' = [th EXCEPT ![t].pc = "i_mutex"]
    /\ UNCHANGED << now, config, backendVars, clientVars, cacheVars, table_row_key_element,
                    counter_value, table_batch_op_thread_pools, queryVars,
                    refresh_failures >>

\* Line 1069: the mutex entry is dropped from the map, whoever still refers to it.
IMutex(t) ==
    /\ th[t].pc = "i_mutex"
    /\ table_mutexs' = [table_mutexs EXCEPT ![th[t].table] = 0]
    /\ th' = [th EXCEPT ![t].pc = "i_pool"]
    /\ UNCHANGED << now, config, backendVars, clientVars, table_locations, mutex_holder,
                    perTableVars, queryVars, refresh_failures >>

\* Line 1070.
IPool(t) ==
    /\ th[t].pc = "i_pool"
    /\ table_batch_op_thread_pools' = table_batch_op_thread_pools \ {th[t].table}
    /\ th' = [th EXCEPT ![t] = Finish(@, "ok")]
    /\ UNCHANGED << now, config, backendVars, clientVars, cacheVars, table_row_key_element,
                    table_continuous_failures, counter_value, queryVars,
                    refresh_failures >>

InvalidateStep(t) ==
    \/ IGet(t) \/ ILock(t) \/ IRemove(t) \/ IRowKey(t) \/ IFailures(t) \/ IMutex(t)
    \/ IPool(t)

\* ----------------------------------------------- refresh_all_table_entries

\* Lines 1130-1142: every table of the snapshot is refreshed, blocking; an error
\* is logged and the next table follows.
RNext(t) ==
    /\ th[t].pc = "r_next"
    /\ \/ /\ th[t].todo = {}
          /\ th' = [th EXCEPT ![t] = Finish(@, "ok")]
       \/ \E tb \in th[t].todo :
            th' = [th EXCEPT ![t] = GCall([@ EXCEPT !.todo = @ \ {tb}], tb, TRUE, TRUE,
                                          "r_next")]
    /\ UNCHANGED << now, config, backendVars, clientVars, cacheVars, perTableVars, queryVars,
                    refresh_failures >>

\* ------------------------------------------------- calls of the cache's API

\* A thread calls get_or_refresh_table_entry (blocking) or its non-blocking twin.
CallGetOrRefresh(t) ==
    /\ th[t].pc = "idle"
    /\ t \in config.threads
    /\ \E tb \in config.tables, refresh \in BOOLEAN, blocking \in BOOLEAN :
         th' = [th EXCEPT ![t] = GCall([@ EXCEPT !.op = "get_or_refresh", !.table = tb],
                                       tb, refresh, blocking, "g_done")]
    /\ UNCHANGED << now, config, backendVars, clientVars, cacheVars, perTableVars, queryVars,
                    refresh_failures >>

\* The call of get_or_refresh_table_entry has returned to its caller.
GDone(t) ==
    /\ th[t].pc = "g_done"
    /\ th' = [th EXCEPT ![t] = Finish(@, th[t].g_res)]
    /\ UNCHANGED << now, config, backendVars, clientVars, cacheVars, perTableVars, queryVars,
                    refresh_failures >>

CallInvalidate(t) ==
    /\ th[t].pc = "idle"
    /\ t \in config.threads
    /\ \E tb \in config.tables :
         th' = [th EXCEPT ![t].pc = "i_get", ![t].op = "invalidate_table", ![t].table = tb]
    /\ UNCHANGED << now, config, backendVars, clientVars, cacheVars, perTableVars, queryVars,
                    refresh_failures >>

\* The scheduled task: the snapshot of the table names (lines 1130-1135).
CallRefreshAll(t) ==
    /\ th[t].pc = "idle"
    /\ t \in config.threads
    /\ th' = [th EXCEPT ![t].pc = "r_next", ![t].op = "refresh_all",
                        ![t].todo = {tb \in Tables : table_locations[tb] # NoEntry}]
    /\ UNCHANGED << now, config, backendVars, clientVars, cacheVars, perTableVars, queryVars,
                    refresh_failures >>

\* close (lines 1160-1178), which Drop calls (line 1446): closed is stored and
\* the handles of table_roster are dropped.  close takes &mut self, so no
\* other call of the inner client is under way; on a closed client it returns
\* at line 1161 and changes nothing.
Close ==
    /\ \A t \in Threads : th[t].pc = "idle"
    /\ ~closed
    /\ closed' = TRUE
    /\ table_roster' = {}
    /\ UNCHANGED << now, config, backendVars, initialized, server_roster, max_priority,
                    ocp_model, connection_pools, refresh_metadata_mutex,
                    last_refresh_metadata_ts, cacheVars, perTableVars, queryVars,
                    refresh_failures, th >>

\* The caller takes the result and is free for its next call.
Return(t) ==
    /\ th[t].pc = "done"
    /\ th' = [th EXCEPT ![t] = IdleThread]
    /\ UNCHANGED << now, config, backendVars, clientVars, cacheVars, perTableVars, queryVars,
                    refresh_failures >>

\* Time passes.
Tick ==
    /\ now < StartTime + MaxTicks
    /\ now' = now + 1
    /\ UNCHANGED << config, backendVars, clientVars, cacheVars, perTableVars, queryVars,
                    refresh_failures, th >>

\* ------------------------------------------------------- failure tracking

\* The fields of the client that neither a handle nor a pool is added to.
metaVars == << initialized, closed, server_roster, max_priority, ocp_model,
               last_refresh_metadata_ts, refresh_metadata_mutex >>

\* The errors of one kind, with every answer need_retry() and need_refresh_table()
\* can give for them.
Errors(kind) ==
    {[kind |-> kind, need_retry |-> r, need_refresh |-> f] : r, f \in BOOLEAN}

\* The count the map holds for a table; a table without a counter has none.
ContinuousFailures(tb) ==
    IF table_continuous_failures[tb] = 0 THEN 0
    ELSE counter_value[table_continuous_failures[tb]]

\* reset_table_failure that leaves the counter as it is.
ResetTableFailureSkipped(tb) == counter_value

\* reset_table_failure: the table's counter, if there is one, is set to 0.
ResetTableFailure(tb) ==
    IF table_continuous_failures[tb] # 0
    THEN [counter_value EXCEPT ![table_continuous_failures[tb]] = 0]
    ELSE counter_value

\* The operation fails with the error: on_table_op_failure is entered.
Fail(t, kind) ==
    \E e \in Errors(kind) : th' = [th EXCEPT ![t].err = e, ![t].pc = "f_start"]

\* Lines 314-321: an error that needs a refresh starts a non-blocking one.
FStart(t) ==
    /\ th[t].pc = "f_start"
    /\ IF th[t].err.need_refresh
       THEN th' = [th EXCEPT ![t] = GCall(@, th[t].table, TRUE, FALSE, "f_refreshed")]
       ELSE th' = [th EXCEPT ![t].pc = "f_counter"]
    /\ UNCHANGED << now, config, backendVars, clientVars, cacheVars, perTableVars, queryVars,
                    refresh_failures >>

\* Line 320: the ? after the non-blocking refresh.
FRefreshed(t) ==
    /\ th[t].pc = "f_refreshed"
    /\ IF th[t].g_res # "ok"
       THEN th' = [th EXCEPT ![t] = Finish(@, th[t].err.kind)]
       ELSE th' = [th EXCEPT ![t].pc = "f_counter"]
    /\ UNCHANGED << now, config, backendVars, clientVars, cacheVars, perTableVars, queryVars,
                    refresh_failures >>

\* Lines 323-339: the table's counter, created under the write lock if absent.
FCounter(t) ==
    /\ th[t].pc = "f_counter"
    /\ LET tb == th[t].table IN
         IF table_continuous_failures[tb] # 0
         THEN /\ th' = [th EXCEPT ![t].pc = "f_add",
                                  ![t].ctr = table_continuous_failures[tb]]
              /\ UNCHANGED << table_continuous_failures, counter_value >>
         ELSE /\ table_continuous_failures' =
                     [table_continuous_failures EXCEPT ![tb] = FreshCounter]
              /\ counter_value' = [counter_value EXCEPT ![FreshCounter] = 0]
              /\ th' = [th EXCEPT ![t].pc = "f_add", ![t].ctr = FreshCounter]
    /\ UNCHANGED << now, config, backendVars, clientVars, cacheVars, table_row_key_element,
                    table_batch_op_thread_pools, queryVars, refresh_failures >>

\* FAdd that compares the value after the increment with the ceiling.
FAddComparesNewValue(t) ==
    /\ th[t].pc = "f_add"
    /\ counter_value' = [counter_value EXCEPT ![th[t].ctr] = Min(@ + 1, MaxCount)]
    /\ IF counter_value[th[t].ctr] + 1 >= config.runtime_continuous_failure_ceiling
       THEN th' = [th EXCEPT ![t] = GCall(@, th[t].table, TRUE, TRUE, "f_blocked")]
       ELSE th' = [th EXCEPT ![t].pc = "e_retry", ![t].ctr = 0]
    /\ UNCHANGED << now, config, backendVars, clientVars, cacheVars, table_row_key_element,
                    table_continuous_failures, table_batch_op_thread_pools, queryVars,
                    refresh_failures >>

\* Lines 341-345: fetch_add returns the value before the increment; at the
\* ceiling a blocking refresh follows.
FAdd(t) ==
    /\ th[t].pc = "f_add"
    /\ counter_value' = [counter_value EXCEPT ![th[t].ctr] = Min(@ + 1, MaxCount)]
    /\ IF counter_value[th[t].ctr] >= config.runtime_continuous_failure_ceiling
       THEN th' = [th EXCEPT ![t] = GCall(@, th[t].table, TRUE, TRUE, "f_blocked")]
       ELSE th' = [th EXCEPT ![t].pc = "e_retry", ![t].ctr = 0]
    /\ UNCHANGED << now, config, backendVars, clientVars, cacheVars, table_row_key_element,
                    table_continuous_failures, table_batch_op_thread_pools, queryVars,
                    refresh_failures >>

\* FBlocked that goes on to the retry decision whatever the refresh returned.
FBlockedIgnoresError(t) ==
    /\ th[t].pc = "f_blocked"
    /\ counter_value' = [counter_value EXCEPT ![th[t].ctr] = 0]
    /\ th' = [th EXCEPT ![t].pc = "e_retry", ![t].ctr = 0]
    /\ UNCHANGED << now, config, backendVars, clientVars, cacheVars, table_row_key_element,
                    table_continuous_failures, table_batch_op_thread_pools, queryVars,
                    refresh_failures >>

\* Lines 345-346: the ? after the blocking refresh, then the counter is cleared.
FBlocked(t) ==
    /\ th[t].pc = "f_blocked"
    /\ IF th[t].g_res # "ok"
       THEN /\ th' = [th EXCEPT ![t] = Finish(@, th[t].err.kind)]
            /\ UNCHANGED counter_value
       ELSE /\ counter_value' = [counter_value EXCEPT ![th[t].ctr] = 0]
            /\ th' = [th EXCEPT ![t].pc = "e_retry", ![t].ctr = 0]
    /\ UNCHANGED << now, config, backendVars, clientVars, cacheVars, table_row_key_element,
                    table_continuous_failures, table_batch_op_thread_pools, queryVars,
                    refresh_failures >>

OnTableOpFailureStep(t) ==
    \/ FStart(t) \/ FRefreshed(t) \/ FCounter(t) \/ FAdd(t) \/ FBlocked(t)

\* ------------------------------------------------- execute, execute_batch

\* check_status: initialized is looked at first.
CheckStatus ==
    IF ~initialized THEN "NotInitialized"
    ELSE IF closed THEN "AlreadyClosed"
    ELSE "ok"

\* The partitionings of the tables of the catalog: not partitioned ("plain"),
\* level Zero, level One by hash into two partitions with and without its
\* first-part descriptor, level Two (two by two) with and without its sub-part
\* descriptor, and a level the client does not know.
Shapes == {"plain", "zero", "hash2", "one_nodesc", "two", "two_nosub", "unknown"}

\* partition_info().level() of a partitioned entry.
Level(shape) ==
    CASE shape = "zero" -> "Zero"
      [] shape \in {"hash2", "one_nodesc"} -> "One"
      [] shape \in {"two", "two_nosub", "two_nofirst", "two_nodesc"} -> "Two"
      [] OTHER -> "Unknown"

HasFirstPartDesc(shape) == shape \in {"hash2", "two", "two_nosub"}
HasSubPartDesc(shape) == shape \in {"two", "two_nofirst"}
\* partition_info() of a partitioned entry is Some.
HasPartitionInfo(shape) == shape # "noinfo"

\* The two constants of ob_part_constants, at a width that keeps the ids small;
\* the composition below is the same for every width at which the three parts
\* of an id do not overlap.
PART_ID_SHIFT == 2
MASK == 8

\* first_part_desc.get_part_id(row_key) and sub_part_desc.get_part_id(row_key):
\* a row key is the number of the buckets its columns hash to, a negative key is
\* one a descriptor fails on (-2 is the descriptor's own error).
FirstPartId(key) == IF key < 0 THEN -2 ELSE key % 2
SubPartId(key) == IF key < 0 THEN -2 ELSE (key \div 2) % 2

\* Line 809: (id1 << PART_ID_SHIFT) | id2 | MASK.
TwoLevelPartId(id1, id2) == id1 * (2 ^ PART_ID_SHIFT) + id2 + MASK

\* The kind of the error a negative result of get_partition stands for.
PartitionFailure(part) == IF part = -1 THEN "PartitionError" ELSE "PartDesc"

\* get_partition that resolves level Two as level One, by the first descriptor.
GetPartitionOfFirstLevel(entry, key) ==
    IF ~IsPartitionTable(entry.shape) THEN 0
    ELSE IF ~HasPartitionInfo(entry.shape) THEN -1
    ELSE CASE Level(entry.shape) = "Zero" -> 0
           [] Level(entry.shape) \in {"One", "Two"} ->
                IF HasFirstPartDesc(entry.shape) THEN FirstPartId(key) ELSE -1
           [] OTHER -> -1

\* get_partition (lines 731-826); -1 stands for the PartitionError it returns
\* itself and -2 for the error of the descriptor that level One passes on.
GetPartition(entry, key) ==
    IF ~IsPartitionTable(entry.shape) THEN 0
    ELSE IF ~HasPartitionInfo(entry.shape) THEN -1
    ELSE CASE Level(entry.shape) = "Zero" -> 0
           [] Level(entry.shape) = "One" ->
                IF HasFirstPartDesc(entry.shape) THEN FirstPartId(key) ELSE -1
           [] Level(entry.shape) = "Two" ->
                IF /\ HasFirstPartDesc(entry.shape) /\ HasSubPartDesc(entry.shape)
                   /\ FirstPartId(key) >= 0 /\ SubPartId(key) >= 0
                THEN TwoLevelPartId(FirstPartId(key), SubPartId(key))
                ELSE -1
           [] OTHER -> -1

\* The part ids the entry of a table of this shape has a location for.
PartIds(shape) ==
    CASE shape \in {"plain", "zero"} -> {0}
      [] shape \in {"hash2", "one_nodesc"} -> {0, 1}
      [] shape \in {"two", "two_nosub", "two_nofirst", "two_nodesc"} ->
           {TwoLevelPartId(id1, id2) : id1 \in {0, 1}, id2 \in {0, 1}}
      [] OTHER -> {}

\* get_partition_location_with_part_id(part_id).leader(): the address of the
\* leader replica, "none" without a leader.  The entry names one address for
\* all its partitions, or two: then the partitions alternate between them.
LeaderOf(entry, part_id) ==
    CASE entry.leader = "ab" -> IF part_id % 2 = 0 THEN "a" ELSE "b"
      [] entry.leader = "ba" -> IF part_id % 2 = 0 THEN "b" ELSE "a"
      [] OTHER -> entry.leader

\* The attempt counter is incremented, then execute_once / execute_batch_once
\* starts: check_status, then the table entry with refresh = false.
ELoop(t) ==
    /\ th[t].pc = "e_loop"
    /\ IF CheckStatus # "ok"
       THEN \E e \in Errors(CheckStatus) :
              th' = [th EXCEPT ![t].attempt = @ + 1, ![t].err = e, ![t].pc = "f_start"]
       ELSE th' = [th EXCEPT ![t] = GCall([@ EXCEPT !.attempt = @ + 1], th[t].table,
                                          FALSE, TRUE, "e_entry")]
    /\ UNCHANGED << now, config, backendVars, clientVars, cacheVars, perTableVars, queryVars,
                    refresh_failures >>

\* execute_batch_once that refuses no batch.
RefusesNothing(n, atomic) == FALSE

\* Line 1575: an atomic batch is refused unless it has exactly one bucket.
RefusesAtomic(n, atomic) == n # 1 /\ atomic

\* get_partition_leader that looks at the first partition only.
GetPartitionLeaderOfFirst(entry, part_id) == LeaderOf(entry, 0)

\* Lines 714-729: the leader of the location the entry has for the part id.
GetPartitionLeader(entry, part_id) == LeaderOf(entry, part_id)

\* get_or_create_table returns the leader's handle, adding it if the roster has none.
HandleReady(leader) ==
    /\ leader # "none"
    /\ table_roster' = table_roster \cup {leader}
    /\ connection_pools' = IF leader \in table_roster THEN connection_pools
                           ELSE connection_pools \cup {leader}

\* add_ob_table fails: the connection pool of the address cannot be built.
HandleFails(leader) ==
    /\ leader # "none"
    /\ leader \notin table_roster
    /\ leader \notin connection_pools
    /\ UNCHANGED << table_roster, connection_pools >>

\* get_table, lines 436-438 with get_or_create_table: the partition of the row
\* key, then the handle of the leader, added to the roster if it has none.
EEntry(t) ==
    /\ th[t].pc = "e_entry"
    /\ th[t].op = "execute"
    /\ LET e == th[t].g_entry
           part == GetPartition(e, th[t].key)
           resolved == th[t].g_res = "ok" /\ part >= 0
       IN \/ /\ th[t].g_res # "ok"
             /\ Fail(t, "Refresh")
             /\ UNCHANGED << table_roster, connection_pools >>
          \/ /\ th[t].g_res = "ok" /\ part < 0
             /\ Fail(t, PartitionFailure(part))
             /\ UNCHANGED << table_roster, connection_pools >>
          \/ /\ resolved /\ GetPartitionLeader(e, part) = "none"
             /\ Fail(t, "NotFound")
             /\ UNCHANGED << table_roster, connection_pools >>
          \/ /\ resolved
             /\ HandleFails(GetPartitionLeader(e, part))
             /\ Fail(t, "Pool")
          \/ /\ resolved
             /\ HandleReady(GetPartitionLeader(e, part))
             /\ th' = [th EXCEPT ![t].pc = "e_rpc"]
    /\ UNCHANGED << now, config, backendVars, metaVars, cacheVars, perTableVars, queryVars,
                    refresh_failures >>

\* ObTableClient::get_table, lines 430-439: what follows the table entry.
TEntry(t) ==
    /\ th[t].pc = "t_entry"
    /\ LET e == th[t].g_entry
           part == GetPartition(e, th[t].key)
           resolved == th[t].g_res = "ok" /\ part >= 0
       IN \/ /\ th[t].g_res # "ok"
             /\ th' = [th EXCEPT ![t] = Finish(@, "Refresh")]
             /\ UNCHANGED << table_roster, connection_pools >>
          \/ /\ th[t].g_res = "ok" /\ part < 0
             /\ th' = [th EXCEPT ![t] = Finish(@, PartitionFailure(part))]
             /\ UNCHANGED << table_roster, connection_pools >>
          \/ /\ resolved /\ GetPartitionLeader(e, part) = "none"
             /\ th' = [th EXCEPT ![t] = Finish(@, "NotFound")]
             /\ UNCHANGED << table_roster, connection_pools >>
          \/ /\ resolved
             /\ HandleFails(GetPartitionLeader(e, part))
             /\ th' = [th EXCEPT ![t] = Finish(@, "Pool")]
          \/ /\ resolved
             /\ HandleReady(GetPartitionLeader(e, part))
             /\ th' = [th EXCEPT ![t] =
                          Finish([@ EXCEPT !.part_id = part,
                                           !.handles = << << part,
                                               GetPartitionLeader(e, part) >> >>],
                                 "ok")]
    /\ UNCHANGED << now, config, backendVars, metaVars, cacheVars, perTableVars, queryVars,
                    refresh_failures >>

CallGetTable(t) ==
    /\ th[t].pc = "idle"
    /\ t \in config.threads
    /\ \E tb \in config.tables, key \in config.keys, refresh \in BOOLEAN :
         th' = [th EXCEPT ![t] = GCall([@ EXCEPT !.op = "get_table", !.table = tb,
                                                 !.key = key],
                                       tb, refresh, TRUE, "t_entry")]
    /\ UNCHANGED << now, config, backendVars, clientVars, cacheVars, perTableVars, queryVars,
                    refresh_failures >>

\* The backend and a single-row operation: it answers OB_SUCCESS for a table
\* that exists, except for the insert of a row that is there.
BackendAccepts(operation_type, tb, key) ==
    /\ tb \in backend_tables
    /\ ~(operation_type = "insert" /\ key \in backend_rows[tb])

\* The rows after the operation: an insert adds its row.
BackendRowsAfter(operation_type, tb, key) ==
    IF operation_type = "insert"
    THEN [backend_rows EXCEPT ![tb] = @ \cup {key}]
    ELSE backend_rows

\* affected_rows of the result.
BackendAffected(operation_type) == IF operation_type = "insert" THEN 1 ELSE 0

\* The columns of the result: those of the row for a get of a row that is there.
BackendValue(operation_type, tb, key) ==
    IF operation_type = "get" /\ key \in backend_rows[tb] THEN "row" ELSE "empty"

\* Lines 1369 and 1391-1407: the request is with the backend.  The answer is
\* OB_SUCCESS, another result code, or the call fails.
ERpc(t) ==
    /\ th[t].pc = "e_rpc"
    /\ \/ /\ BackendAccepts(th[t].operation_type, th[t].table, th[t].key)
          /\ backend_rows' = BackendRowsAfter(th[t].operation_type, th[t].table,
                                              th[t].key)
          /\ truncated' = IF th[t].operation_type = "insert"
                          THEN [truncated EXCEPT ![th[t].table].since = FALSE]
                          ELSE truncated
          /\ counter_value' = ResetTableFailure(th[t].table)
          /\ th' = [th EXCEPT ![t] =
                       Finish([@ EXCEPT
                                 !.affected = BackendAffected(th[t].operation_type),
                                 !.value = BackendValue(th[t].operation_type,
                                                        th[t].table, th[t].key)],
                              "ok")]
          /\ UNCHANGED backend_tables
       \/ /\ \E e \in Errors("ObException") :
                th' = [th EXCEPT ![t] = Finish([@ EXCEPT !.err = e], "ObException")]
          /\ UNCHANGED << counter_value, backendVars >>
       \/ /\ Fail(t, "Rpc")
          /\ UNCHANGED << counter_value, backendVars >>
    /\ UNCHANGED << now, config, clientVars, cacheVars, table_row_key_element,
                    table_continuous_failures, table_batch_op_thread_pools, queryVars,
                    refresh_failures >>

\* ERetry that asks for the budget only, not for need_retry().
ERetryWhateverTheError(t) ==
    /\ th[t].pc = "e_retry"
    /\ IF /\ th[t].op \in {"execute", "execute_batch"}
          /\ th[t].attempt < config.rpc_retry_limit
       THEN th' = [th EXCEPT ![t].pc = "e_loop"]
       ELSE th' = [th EXCEPT ![t] = Finish(@, th[t].err.kind)]
    /\ UNCHANGED << now, config, backendVars, clientVars, cacheVars, perTableVars, queryVars,
                    refresh_failures >>

\* ERetry that leaves out of the batch it tries again the operations of the
\* partitions whose sub-batch was executed.
ERetryDropsExecuted(t) ==
    /\ th[t].pc = "e_retry"
    /\ IF /\ th[t].op \in {"execute", "execute_batch"}
          /\ th[t].attempt < config.rpc_retry_limit
          /\ th[t].err.need_retry
       THEN th' = [th EXCEPT
                     ![t].pc = "e_loop",
                     ![t].batch.ops =
                         SelectSeq(@, LAMBDA k :
                             GetPartition([NoEntry EXCEPT !.shape = config.catalog[th[t].table]], k)
                                 \notin th[t].executed)]
       ELSE th' = [th EXCEPT ![t] = Finish(@, th[t].err.kind)]
    /\ UNCHANGED << now, config, backendVars, clientVars, cacheVars, perTableVars, queryVars,
                    refresh_failures >>

\* Lines 1422-1437: after on_table_op_failure returned Ok.  The stream querier
\* has no loop and returns the error.
ERetry(t) ==
    /\ th[t].pc = "e_retry"
    /\ IF /\ th[t].op \in {"execute", "execute_batch"}
          /\ th[t].attempt < config.rpc_retry_limit
          /\ th[t].err.need_retry
       THEN th' = [th EXCEPT ![t].pc = "e_loop"]
       ELSE th' = [th EXCEPT ![t] = Finish(@, th[t].err.kind)]
    /\ UNCHANGED << now, config, backendVars, clientVars, cacheVars, perTableVars, queryVars,
                    refresh_failures >>

CallExecute(t) ==
    /\ th[t].pc = "idle"
    /\ t \in config.threads
    /\ "execute" \in config.ops
    /\ \E tb \in config.tables, key \in config.keys,
          operation_type \in config.operation_types :
         th' = [th EXCEPT ![t].pc = "e_loop", ![t].op = "execute", ![t].table = tb,
                          ![t].key = key, ![t].attempt = 0,
                          ![t].operation_type = operation_type]
    /\ UNCHANGED << now, config, backendVars, clientVars, cacheVars, perTableVars, queryVars,
                    refresh_failures >>

\* ------------------------------------------------------ execute_batch_once

\* ObTableBatchOperation::add_op at the front of the sub-batch.
AddOpInFront(bucket, i) == << i >> \o bucket

\* Line 1552: the operation (its index in the input) goes to the end of the
\* sub-batch of its partition.
AddOp(bucket, i) == Append(bucket, i)

\* Lines 1546-1553: the first n operations bucketed by partition id.
RECURSIVE PartBatchOps(_, _, _)
PartBatchOps(entry, ops, n) ==
    IF n = 0 THEN [p \in {} |-> << >>]
    ELSE LET prev == PartBatchOps(entry, ops, n - 1)
             part == GetPartition(entry, ops[n])
         IN  [p \in DOMAIN prev \cup {part} |->
                 IF p # part THEN prev[p]
                 ELSE AddOp(IF p \in DOMAIN prev THEN prev[p] ELSE << >>, n)]

\* The orders in which a HashMap of these keys can be iterated.
IterationOrders(keys) ==
    {o \in [1 .. Cardinality(keys) -> keys] :
        \A i, j \in 1 .. Cardinality(keys) : i # j => o[i] # o[j]}

\* Line 1608: results.into_iter().flatten().collect()
RECURSIVE Flatten(_)
Flatten(results) ==
    IF results = << >> THEN << >> ELSE Head(results) \o Flatten(Tail(results))

\* Lines 1544-1601: the entry, the buckets, then the fast path for one bucket,
\* the refusal of an atomic batch over several, or one runner for each bucket.
BEntry(t) ==
    /\ th[t].pc = "e_entry"
    /\ th[t].op = "execute_batch"
    /\ LET e == th[t].g_entry
           ops == th[t].batch.ops
           ok == th[t].g_res = "ok"
           bad == \E i \in 1 .. Len(ops) : GetPartition(e, ops[i]) < 0
           part_batch_ops == PartBatchOps(e, ops, Len(ops))
           parts == DOMAIN part_batch_ops
           n == Cardinality(parts)
           refused == RefusesAtomic(n, th[t].batch.atomic)
           several == ok /\ ~bad /\ n > 1 /\ ~refused
       IN \/ /\ ~ok
             /\ Fail(t, "Refresh")
             /\ UNCHANGED << table_roster, connection_pools, perTableVars >>
          \/ /\ ok /\ bad
             /\ \E i \in 1 .. Len(ops) :
                  /\ GetPartition(e, ops[i]) < 0
                  /\ \A j \in 1 .. (i - 1) : GetPartition(e, ops[j]) >= 0
                  /\ Fail(t, PartitionFailure(GetPartition(e, ops[i])))
             /\ UNCHANGED << table_roster, connection_pools, perTableVars >>
          \/ /\ ok /\ ~bad /\ n = 0
             /\ counter_value' = ResetTableFailure(th[t].table)
             /\ th' = [th EXCEPT ![t] = Finish([@ EXCEPT !.results = << >>], "ok")]
             /\ UNCHANGED << table_roster, connection_pools, table_row_key_element,
                             table_continuous_failures, table_batch_op_thread_pools >>
          \/ /\ ok /\ ~bad /\ n = 1
             /\ \/ /\ e.leader = "none"
                   /\ Fail(t, "NotFound")
                   /\ UNCHANGED << table_roster, connection_pools >>
                \/ /\ HandleFails(e.leader)
                   /\ Fail(t, "Pool")
                \/ /\ HandleReady(e.leader)
                   /\ \E p \in parts :
                        th' = [th EXCEPT
                                 ![t].pc = "b_rpc",
                                 ![t].nsent = @ + 1,
                                 ![t].sent = << [part |-> p, ops |-> part_batch_ops[p],
                                                 atomic |-> th[t].batch.atomic] >>]
             /\ UNCHANGED perTableVars
          \/ /\ ok /\ ~bad /\ n > 1 /\ refused
             /\ Fail(t, "OB_INVALID_PARTITION")
             /\ UNCHANGED << table_roster, connection_pools, perTableVars >>
          \/ /\ several
             /\ table_batch_op_thread_pools' = table_batch_op_thread_pools \cup {th[t].table}
             /\ \/ /\ e.leader = "none"
                   /\ Fail(t, "NotFound")
                   /\ UNCHANGED << table_roster, connection_pools >>
                \/ /\ HandleFails(e.leader)
                   /\ Fail(t, "Pool")
                \/ /\ HandleReady(e.leader)
                   /\ \E o \in IterationOrders(parts) :
                        th' = [th EXCEPT
                                 ![t].pc = "b_rpc",
                                 ![t].nsent = @ + n,
                                 ![t].sent = [i \in 1 .. n |->
                                                [part |-> o[i], ops |-> part_batch_ops[o[i]],
                                                 atomic |-> FALSE]]]
             /\ UNCHANGED << table_row_key_element, table_continuous_failures,
                             counter_value >>
    /\ UNCHANGED << now, config, backendVars, metaVars, cacheVars, queryVars, refresh_failures >>

\* Lines 1571 and 1604-1608, then 1775-1778: every sub-batch is with its backend.
\* All succeed, each with one result for each of its operations in their order,
\* or the batch fails with the error of a sub-batch, whatever the runners of
\* the other sub-batches did on their backends.
BRpc(t) ==
    /\ th[t].pc = "b_rpc"
    /\ \/ /\ counter_value' = ResetTableFailure(th[t].table)
          /\ th' = [th EXCEPT ![t] =
                      Finish([@ EXCEPT !.results =
                                Flatten([i \in 1 .. Len(th[t].sent) |-> th[t].sent[i].ops])],
                             "ok")]
       \/ /\ \E f \in 1 .. Len(th[t].sent) :
               \E ran \in SUBSET ((1 .. Len(th[t].sent)) \ {f}) :
                 \E e \in Errors("Rpc") :
                   th' = [th EXCEPT ![t].err = e, ![t].pc = "f_start",
                                    ![t].executed = {th[t].sent[i].part : i \in ran}]
          /\ UNCHANGED counter_value
    /\ UNCHANGED << now, config, backendVars, clientVars, cacheVars, table_row_key_element,
                    table_continuous_failures, table_batch_op_thread_pools, queryVars,
                    refresh_failures >>

CallExecuteBatch(t) ==
    /\ th[t].pc = "idle"
    /\ t \in config.threads
    /\ "execute_batch" \in config.ops
    /\ \E tb \in config.tables, b \in config.batches :
         th' = [th EXCEPT ![t].pc = "e_loop", ![t].op = "execute_batch",
                          ![t].table = tb, ![t].batch = b, ![t].attempt = 0]
    /\ UNCHANGED << now, config, backendVars, clientVars, cacheVars, perTableVars, queryVars,
                    refresh_failures >>

\* ------------------------------------------- execute_query, execute_stream

\* Permits: a permit is free while fewer than the limit are held.
PermitsAvailable == permits_in_use < config.query_concurrency_limit
\* Permits::acquire hands out a PermitGuard.
PermitsAcquire == permits_in_use + 1
\* The PermitGuard gives its permit back when it is dropped.
PermitGuardDrop == permits_in_use - 1

\* Line 1852 with acquire_query_permit (lines 292-303); a limit of -1 stands for
\* None.  Without a free permit acquire() is taken to fail (were it to wait, the
\* call would stay here).
QPermit(t) ==
    /\ th[t].pc = "q_permit"
    /\ IF config.query_concurrency_limit < 0
       THEN /\ th' = [th EXCEPT ![t].pc = "q_send"]
            /\ UNCHANGED permits_in_use
       ELSE IF PermitsAvailable
       THEN /\ permits_in_use' = PermitsAcquire
            /\ th' = [th EXCEPT ![t].pc = "q_drop"]
       ELSE /\ th' = [th EXCEPT ![t] = Finish(@, "Permit")]
            /\ UNCHANGED permits_in_use
    /\ UNCHANGED << now, config, backendVars, clientVars, cacheVars, perTableVars, rpcs_in_flight,
                    refresh_failures >>

\* Line 1852 ends: the guard, a temporary of the statement, is dropped.
QDrop(t) ==
    /\ th[t].pc = "q_drop"
    /\ permits_in_use' = PermitGuardDrop
    /\ th' = [th EXCEPT ![t].pc = "q_send"]
    /\ UNCHANGED << now, config, backendVars, clientVars, cacheVars, perTableVars, rpcs_in_flight,
                    refresh_failures >>

\* Lines 1862 and 1896: the query request goes to the backend.
QSend(t) ==
    /\ th[t].pc = "q_send"
    /\ rpcs_in_flight' = rpcs_in_flight + 1
    /\ th' = [th EXCEPT ![t].pc = "q_rpc"]
    /\ UNCHANGED << now, config, backendVars, clientVars, cacheVars, perTableVars, permits_in_use,
                    refresh_failures >>

\* Lines 1862-1880 and 1896-1916: the answer of the backend.
QRpc(t) ==
    /\ th[t].pc = "q_rpc"
    /\ rpcs_in_flight' = rpcs_in_flight - 1
    /\ \/ /\ counter_value' = ResetTableFailure(th[t].table)
          /\ th' = [th EXCEPT ![t] = Finish(@, "ok")]
       \/ /\ Fail(t, "Rpc")
          /\ UNCHANGED counter_value
    /\ UNCHANGED << now, config, backendVars, clientVars, cacheVars, table_row_key_element,
                    table_continuous_failures, table_batch_op_thread_pools,
                    permits_in_use, refresh_failures >>

QueryStep(t) == QPermit(t) \/ QDrop(t) \/ QSend(t) \/ QRpc(t)

CallExecuteQuery(t) ==
    /\ th[t].pc = "idle"
    /\ t \in config.threads
    /\ "execute_query" \in config.ops
    /\ \E tb \in config.tables :
         th' = [th EXCEPT ![t].pc = "q_permit", ![t].op = "execute_query",
                          ![t].table = tb]
    /\ UNCHANGED << now, config, backendVars, clientVars, cacheVars, perTableVars, queryVars,
                    refresh_failures >>

CallExecuteStream(t) ==
    /\ th[t].pc = "idle"
    /\ t \in config.threads
    /\ "execute_stream" \in config.ops
    /\ \E tb \in config.tables :
         th' = [th EXCEPT ![t].pc = "q_send", ![t].op = "execute_stream",
                          ![t].table = tb]
    /\ UNCHANGED << now, config, backendVars, clientVars, cacheVars, perTableVars, queryVars,
                    refresh_failures >>

\* ------------------------------------------------------ add_row_key_element

\* Lines 1022-1025: the first n columns inserted into the HashMap, each with its
\* position; inserting a name again replaces its ordinal.
RECURSIVE RowKeyElement(_, _)
RowKeyElement(columns, n) ==
    IF n = 0 THEN {}
    ELSE {p \in RowKeyElement(columns, n - 1) : p[1] # columns[n]}
         \cup {<< columns[n], n - 1 >>}

\* The check that finds no map, whatever is registered.
ACheckSeesNothing(t) ==
    /\ th[t].pc = "a_check"
    /\ th' = [th EXCEPT ![t].pc = "a_insert"]
    /\ UNCHANGED << now, config, backendVars, clientVars, cacheVars, perTableVars, queryVars,
                    refresh_failures >>

\* Lines 1015-1020: with a map registered for the table the call returns.
ACheck(t) ==
    /\ th[t].pc = "a_check"
    /\ IF table_row_key_element[th[t].table].present
       THEN th' = [th EXCEPT ![t] = Finish(@, "ok")]
       ELSE th' = [th EXCEPT ![t].pc = "a_insert"]
    /\ UNCHANGED << now, config, backendVars, clientVars, cacheVars, perTableVars, queryVars,
                    refresh_failures >>

\* Lines 1021-1029: the map is built and inserted under the write lock.
AInsert(t) ==
    /\ th[t].pc = "a_insert"
    /\ table_row_key_element' =
           [table_row_key_element EXCEPT ![th[t].table] =
               [present |-> TRUE,
                map |-> RowKeyElement(th[t].columns, Len(th[t].columns))]]
    /\ th' = [th EXCEPT ![t] = Finish(@, "ok")]
    /\ UNCHANGED << now, config, backendVars, clientVars, cacheVars, table_continuous_failures,
                    counter_value, table_batch_op_thread_pools, queryVars,
                    refresh_failures >>

CallAddRowKeyElement(t) ==
    /\ th[t].pc = "idle"
    /\ t \in config.threads
    /\ \E tb \in config.tables, columns \in config.column_lists :
         th' = [th EXCEPT ![t].pc = "a_check", ![t].op = "add_row_key_element",
                          ![t].table = tb, ![t].columns = columns]
    /\ UNCHANGED << now, config, backendVars, clientVars, cacheVars, perTableVars, queryVars,
                    refresh_failures >>

\* --------------------------------------------------------------- get_tables

\* first_part_desc.get_part_ids(start, start_inclusive, end, end_inclusive) of
\* the hash descriptor: the partition of the key for a range of one key, every
\* partition otherwise.
GetPartIds(range) ==
    IF range.start = range.end THEN << FirstPartId(range.start) >> ELSE << 0, 1 >>

\* Lines 511-546, for each of the part ids in turn: the leader of the location
\* of the part id is added to the result, and the first part id without a
\* location or without a leader ends the call.
RECURSIVE FillPartitionLocations(_, _, _)
FillPartitionLocations(result, entry, part_ids) ==
    IF part_ids = << >>
    THEN [res |-> "ok", msg |-> "none", part_id |-> 0, pairs |-> result]
    ELSE LET part_id == Head(part_ids)
         IN IF part_id \notin PartIds(entry.shape)
            THEN [res |-> "NotFound", msg |-> "Replica not found",
                  part_id |-> part_id, pairs |-> << >>]
            ELSE IF LeaderOf(entry, part_id) = "none"
            THEN [res |-> "NotFound", msg |-> "Leader not found",
                  part_id |-> part_id, pairs |-> << >>]
            ELSE FillPartitionLocations(
                     Append(result, << part_id, LeaderOf(entry, part_id) >>),
                     entry, Tail(part_ids))

\* get_partition_leaders that resolves a level-Two entry as it resolves level One.
GetPartitionLeadersOfTwoLevels(entry, range) ==
    IF ~IsPartitionTable(entry.shape) \/ Level(entry.shape) = "Zero"
    THEN FillPartitionLocations(<< >>, entry, << 0 >>)
    ELSE FillPartitionLocations(<< >>, entry, GetPartIds(range))

\* Lines 548-606.
GetPartitionLeaders(entry, range) ==
    IF ~IsPartitionTable(entry.shape) \/ Level(entry.shape) = "Zero"
    THEN FillPartitionLocations(<< >>, entry, << 0 >>)
    ELSE IF Level(entry.shape) = "One"
    THEN IF HasFirstPartDesc(entry.shape)
         THEN FillPartitionLocations(<< >>, entry, GetPartIds(range))
         ELSE [res |-> "NotFound", msg |-> "First part desc not found",
               part_id |-> 0, pairs |-> << >>]
    ELSE [res |-> "PartitionError", msg |-> "Unsupported partition level two",
          part_id |-> 0, pairs |-> << >>]

\* A call that fails with the error of another call or with one of its own.
Raise(r, res, msg, part_id) ==
    Finish([r EXCEPT !.msg = msg, !.part_id = part_id, !.pairs = << >>,
                     !.handles = << >>], res)

\* Lines 451-455: the table entry, then the leaders of the partitions of the range.
LEntry(t) ==
    /\ th[t].pc = "l_entry"
    /\ LET leaders == GetPartitionLeaders(th[t].g_entry, th[t].range)
       IN th' = [th EXCEPT ![t] =
                    IF th[t].g_res # "ok" THEN Raise(@, "Refresh", "none", 0)
                    ELSE IF leaders.res # "ok"
                    THEN Raise(@, leaders.res, leaders.msg, leaders.part_id)
                    ELSE [@ EXCEPT !.pc = "l_pair", !.pairs = leaders.pairs,
                                   !.handles = << >>]]
    /\ UNCHANGED << now, config, backendVars, clientVars, cacheVars, perTableVars, queryVars,
                    refresh_failures >>

\* Lines 459-467 and 508: the next pair gets the handle the registry has for the
\* address; without one the metadata is refreshed first.
LPair(t) ==
    /\ th[t].pc = "l_pair"
    /\ th' = [th EXCEPT ![t] =
                 IF th[t].pairs = << >> THEN Finish(@, "ok")
                 ELSE IF Head(th[t].pairs)[2] \in table_roster
                 THEN [@ EXCEPT !.handles = Append(@, Head(th[t].pairs)),
                                !.pairs = Tail(@)]
                 ELSE SCall(@, "l_synced")]
    /\ UNCHANGED << now, config, backendVars, clientVars, cacheVars, perTableVars, queryVars,
                    refresh_failures >>

\* Lines 467-468.
LSynced(t) ==
    /\ th[t].pc = "l_synced"
    /\ th' = [th EXCEPT ![t] =
                 IF th[t].s_res # "ok" THEN Raise(@, "Refresh", "none", 0)
                 ELSE GCall(@, th[t].table, TRUE, TRUE, "l_retry")]
    /\ UNCHANGED << now, config, backendVars, clientVars, cacheVars, perTableVars, queryVars,
                    refresh_failures >>

\* LRetry that builds the handle the registry lacks, as get_or_create_table does.
LRetryCreatesHandle(t) ==
    /\ th[t].pc = "l_retry"
    /\ LET part_id == Head(th[t].pairs)[1]
           leader == LeaderOf(th[t].g_entry, part_id)
           found == /\ th[t].g_res = "ok"
                    /\ part_id \in PartIds(th[t].g_entry.shape)
                    /\ leader # "none"
       IN /\ th' = [th EXCEPT ![t] =
                    IF th[t].g_res # "ok" THEN Raise(@, "Refresh", "none", 0)
                    ELSE IF part_id \notin PartIds(th[t].g_entry.shape)
                    THEN Raise(@, "NotFound", "Replica not found", part_id)
                    ELSE IF leader = "none"
                    THEN Raise(@, "NotFound", "Leader not found", part_id)
                    ELSE [@ EXCEPT !.pc = "l_pair",
                                   !.handles = Append(@, << part_id, leader >>),
                                   !.pairs = Tail(@)]]
          /\ table_roster' = IF found THEN table_roster \cup {leader} ELSE table_roster
          /\ connection_pools' = IF found THEN connection_pools \cup {leader}
                                 ELSE connection_pools
    /\ UNCHANGED << now, config, backendVars, initialized, closed, server_roster, max_priority,
                    ocp_model, last_refresh_metadata_ts, refresh_metadata_mutex,
                    cacheVars, perTableVars, queryVars, refresh_failures >>

\* Lines 468-505: the leader the refreshed entry names for the part id, and the
\* handle the registry has for it.
LRetry(t) ==
    /\ th[t].pc = "l_retry"
    /\ LET part_id == Head(th[t].pairs)[1]
           leader == LeaderOf(th[t].g_entry, part_id)
       IN th' = [th EXCEPT ![t] =
                    IF th[t].g_res # "ok" THEN Raise(@, "Refresh", "none", 0)
                    ELSE IF part_id \notin PartIds(th[t].g_entry.shape)
                    THEN Raise(@, "NotFound", "Replica not found", part_id)
                    ELSE IF leader = "none"
                    THEN Raise(@, "NotFound", "Leader not found", part_id)
                    ELSE IF leader \notin table_roster
                    THEN Raise(@, "NotFound", "ObTable not found in table_roster",
                               part_id)
                    ELSE [@ EXCEPT !.pc = "l_pair",
                                   !.handles = Append(@, << part_id, leader >>),
                                   !.pairs = Tail(@)]]
    /\ UNCHANGED << now, config, backendVars, clientVars, cacheVars, perTableVars, queryVars,
                    refresh_failures >>

GetTablesStep(t) == LEntry(t) \/ LPair(t) \/ LSynced(t) \/ LRetry(t)

\* Lines 441-451, as TableQuery::execute calls it for a key range (line 1957).
CallGetTables(t) ==
    /\ th[t].pc = "idle"
    /\ t \in config.threads
    /\ \E tb \in config.tables, start \in config.keys, end \in config.keys,
          start_inclusive \in BOOLEAN, end_inclusive \in BOOLEAN, refresh \in BOOLEAN :
         th' = [th EXCEPT ![t] =
                  GCall([@ EXCEPT !.op = "get_tables", !.table = tb,
                                  !.range = [start |-> start,
                                             start_inclusive |-> start_inclusive,
                                             end |-> end,
                                             end_inclusive |-> end_inclusive]],
                        tb, refresh, TRUE, "l_entry")]
    /\ UNCHANGED << now, config, backendVars, clientVars, cacheVars, perTableVars, queryVars,
                    refresh_failures >>

\* -------------------------------------------------------------- execute_sql

\* The backend and a statement: create (IF NOT EXISTS) and drop (IF EXISTS)
\* succeed always, truncate and select on a table that exists.
SqlSucceeds(sql) ==
    sql.kind \in {"create", "drop"} \/ sql.table \in backend_tables

\* The tables and the rows after the statement.
TablesAfterSql(sql) ==
    CASE sql.kind = "create" -> backend_tables \cup {sql.table}
      [] sql.kind = "drop" -> backend_tables \ {sql.table}
      [] OTHER -> backend_tables

RowsAfterSql(sql) ==
    IF sql.kind \in {"drop", "truncate"}
    THEN [backend_rows EXCEPT ![sql.table] = {}]
    ELSE backend_rows

\* A truncate_table that sends a statement which removes nothing.
TruncateTableSqlOfSelect(tb) == [kind |-> "select", table |-> tb]

\* Line 1109: "truncate table {}; purge recyclebin;".
TruncateTableSql(tb) == [kind |-> "truncate", table |-> tb]

\* Line 1093: "SELECT 1 FROM {} LIMIT 1;".
CheckTableExistsSql(tb) == [kind |-> "select", table |-> tb]

\* A check_table_exists that answers true whatever execute_sql returns.
ExistsWhateverTheResult(res) == TRUE

\* Lines 1094-1103: the table exists if execute_sql returned Ok; every error
\* is taken for a table that does not exist.
Exists(res) == res = "ok"

\* What the caller of execute_sql makes of its result: check_table_exists
\* returns Ok with its answer, truncate_table and execute_sql return the result.
SqlReturn(r, res) ==
    IF r.op = "check_table_exists"
    THEN Finish([r EXCEPT !.sql_res = res, !.exists = Exists(res)], "ok")
    ELSE Finish([r EXCEPT !.sql_res = res], res)

\* Lines 1073-1090: the statement goes to a random member of the server roster;
\* without one the call fails with NotFound.  The statement is executed, or it
\* fails (the backend refuses it, or is not reached).
XSql(t) ==
    /\ th[t].pc = "x_sql"
    /\ \/ /\ server_roster = {}
          /\ th' = [th EXCEPT ![t] = SqlReturn(@, "NotFound")]
          /\ UNCHANGED backendVars
       \/ /\ server_roster # {}
          /\ SqlSucceeds(th[t].sql)
          /\ backend_tables' = TablesAfterSql(th[t].sql)
          /\ backend_rows' = RowsAfterSql(th[t].sql)
          /\ truncated' = IF th[t].op = "truncate_table"
                          THEN [truncated EXCEPT
                                  ![th[t].table] = [since |-> TRUE,
                                                    found |-> backend_rows[th[t].table]]]
                          ELSE truncated
          /\ th' = [th EXCEPT ![t] = SqlReturn(@, "ok")]
       \/ /\ server_roster # {}
          /\ th' = [th EXCEPT ![t] = SqlReturn(@, "Sql")]
          /\ UNCHANGED backendVars
    /\ UNCHANGED << now, config, clientVars, cacheVars, perTableVars, queryVars,
                    refresh_failures >>

CallExecuteSql(t) ==
    /\ th[t].pc = "idle"
    /\ t \in config.threads
    /\ \E sql \in config.sqls :
         th' = [th EXCEPT ![t].pc = "x_sql", ![t].op = "execute_sql",
                          ![t].table = sql.table, ![t].sql = sql]
    /\ UNCHANGED << now, config, backendVars, clientVars, cacheVars, perTableVars,
                    queryVars, refresh_failures >>

CallTruncateTable(t) ==
    /\ th[t].pc = "idle"
    /\ t \in config.threads
    /\ \E tb \in config.tables :
         th' = [th EXCEPT ![t].pc = "x_sql", ![t].op = "truncate_table",
                          ![t].table = tb, ![t].sql = TruncateTableSql(tb)]
    /\ UNCHANGED << now, config, backendVars, clientVars, cacheVars, perTableVars,
                    queryVars, refresh_failures >>

CallCheckTableExists(t) ==
    /\ th[t].pc = "idle"
    /\ t \in config.threads
    /\ \E tb \in config.tables :
         th' = [th EXCEPT ![t].pc = "x_sql", ![t].op = "check_table_exists",
                          ![t].table = tb, ![t].sql = CheckTableExistsSql(tb)]
    /\ UNCHANGED << now, config, backendVars, clientVars, cacheVars, perTableVars,
                    queryVars, refresh_failures >>

\* ------------------------------------------------------------ ServerRoster

\* isize::min_value() (line 150), the start of the scan for the largest priority:
\* a value below every priority of a member.
ISIZE_MIN == -2147483647

\* Lines 150-156: the largest priority among the members, from isize::min_value().
RECURSIVE ScanPriority(_, _)
ScanPriority(members, priority) ==
    IF members = {} THEN priority
    ELSE LET addr == CHOOSE a \in members : TRUE
         IN ScanPriority(members \ {addr},
                         IF config.priority[addr] > priority
                         THEN config.priority[addr] ELSE priority)

\* reset is private to the client: both callers (sync_refresh_metadata, line 1267,
\* and init_metadata, line 1314) hold refresh_metadata_mutex around it.
CallReset(t) ==
    /\ th[t].pc = "idle"
    /\ t \in config.threads
    /\ refresh_metadata_mutex = 0
    /\ refresh_metadata_mutex' = t
    /\ \E members \in SUBSET config.addrs :
         th' = [th EXCEPT ![t].pc = "r_store", ![t].op = "reset",
                          ![t].servers = members]
    /\ UNCHANGED << now, config, backendVars, initialized, closed, table_roster, server_roster,
                    max_priority, ocp_model, connection_pools,
                    last_refresh_metadata_ts, cacheVars, perTableVars, queryVars,
                    refresh_failures >>

\* Line 121: the cached priority is stored first.
RStore(t) ==
    /\ th[t].pc = "r_store"
    /\ max_priority' = 0
    /\ th' = [th EXCEPT ![t].pc = "r_write"]
    /\ UNCHANGED << now, config, backendVars, initialized, closed, table_roster, server_roster,
                    ocp_model, connection_pools, last_refresh_metadata_ts,
                    refresh_metadata_mutex, cacheVars, perTableVars, queryVars,
                    refresh_failures >>

\* Line 122: the members are replaced under the write lock, and reset returns.
RWrite(t) ==
    /\ th[t].pc = "r_write"
    /\ server_roster' = th[t].servers
    /\ refresh_metadata_mutex' = 0
    /\ th' = [th EXCEPT ![t] = Finish(@, "ok")]
    /\ UNCHANGED << now, config, backendVars, initialized, closed, table_roster, max_priority,
                    ocp_model, connection_pools, last_refresh_metadata_ts,
                    cacheVars, perTableVars, queryVars, refresh_failures >>

CallUpgradeMaxPriority(t) ==
    /\ th[t].pc = "idle"
    /\ t \in config.threads
    /\ \E priority \in config.priorities :
         th' = [th EXCEPT ![t].pc = "u_load", ![t].op = "upgrade_max_priority",
                          ![t].priority = priority]
    /\ UNCHANGED << now, config, backendVars, clientVars, cacheVars, perTableVars, queryVars,
                    refresh_failures >>

\* ULoad that looks at the argument first: zero is stored whatever is cached.
ULoadZeroFirst(t) ==
    /\ th[t].pc = "u_load"
    /\ th' = [th EXCEPT ![t] =
                 IF th[t].priority = 0 THEN [@ EXCEPT !.pc = "u_zero", !.p = max_priority]
                 ELSE IF max_priority >= th[t].priority
                 THEN Finish([@ EXCEPT !.p = max_priority], "ok")
                 ELSE [@ EXCEPT !.pc = "m_empty", !.p = max_priority]]
    /\ UNCHANGED << now, config, backendVars, clientVars, cacheVars, perTableVars, queryVars,
                    refresh_failures >>

\* Lines 126-134: the load; a cached value at or above the argument ends the call.
ULoad(t) ==
    /\ th[t].pc = "u_load"
    /\ th' = [th EXCEPT ![t] =
                 IF max_priority >= th[t].priority
                 THEN Finish([@ EXCEPT !.p = max_priority], "ok")
                 ELSE IF th[t].priority = 0
                 THEN [@ EXCEPT !.pc = "u_zero", !.p = max_priority]
                 ELSE [@ EXCEPT !.pc = "m_empty", !.p = max_priority]]
    /\ UNCHANGED << now, config, backendVars, clientVars, cacheVars, perTableVars, queryVars,
                    refresh_failures >>

\* Line 131.
UZero(t) ==
    /\ th[t].pc = "u_zero"
    /\ max_priority' = 0
    /\ th' = [th EXCEPT ![t] = Finish(@, "ok")]
    /\ UNCHANGED << now, config, backendVars, initialized, closed, table_roster, server_roster,
                    ocp_model, connection_pools, last_refresh_metadata_ts,
                    refresh_metadata_mutex, cacheVars, perTableVars, queryVars,
                    refresh_failures >>

CallDowngradeMaxPriority(t) ==
    /\ th[t].pc = "idle"
    /\ t \in config.threads
    /\ \E priority \in config.priorities :
         th' = [th EXCEPT ![t].pc = "d_load", ![t].op = "downgrade_max_priority",
                          ![t].priority = priority]
    /\ UNCHANGED << now, config, backendVars, clientVars, cacheVars, perTableVars, queryVars,
                    refresh_failures >>

\* Lines 138-141: the load; a cached value at or below the argument ends the call.
DLoad(t) ==
    /\ th[t].pc = "d_load"
    /\ th' = [th EXCEPT ![t] =
                 IF max_priority <= th[t].priority THEN Finish(@, "ok")
                 ELSE [@ EXCEPT !.pc = "m_empty"]]
    /\ UNCHANGED << now, config, backendVars, clientVars, cacheVars, perTableVars, queryVars,
                    refresh_failures >>

\* Line 145: reset_max_priority looks at the members under a read lock of its own.
MEmpty(t) ==
    /\ th[t].pc = "m_empty"
    /\ th' = [th EXCEPT ![t].pc = IF server_roster = {} THEN "m_zero" ELSE "m_scan"]
    /\ UNCHANGED << now, config, backendVars, clientVars, cacheVars, perTableVars, queryVars,
                    refresh_failures >>

\* Line 146.
MZero(t) ==
    /\ th[t].pc = "m_zero"
    /\ max_priority' = 0
    /\ th' = [th EXCEPT ![t] = Finish(@, "ok")]
    /\ UNCHANGED << now, config, backendVars, initialized, closed, table_roster, server_roster,
                    ocp_model, connection_pools, last_refresh_metadata_ts,
                    refresh_metadata_mutex, cacheVars, perTableVars, queryVars,
                    refresh_failures >>

\* Lines 150-156: the scan, under a second read lock, of the members as they are
\* now.
MScan(t) ==
    /\ th[t].pc = "m_scan"
    /\ th' = [th EXCEPT ![t].pc = "m_store",
                        ![t].p = ScanPriority(server_roster, ISIZE_MIN)]
    /\ UNCHANGED << now, config, backendVars, clientVars, cacheVars, perTableVars, queryVars,
                    refresh_failures >>

\* Line 158.
MStore(t) ==
    /\ th[t].pc = "m_store"
    /\ max_priority' = th[t].p
    /\ th' = [th EXCEPT ![t] = Finish(@, "ok")]
    /\ UNCHANGED << now, config, backendVars, initialized, closed, table_roster, server_roster,
                    ocp_model, connection_pools, last_refresh_metadata_ts,
                    refresh_metadata_mutex, cacheVars, perTableVars, queryVars,
                    refresh_failures >>

CallMaxPriority(t) ==
    /\ th[t].pc = "idle"
    /\ t \in config.threads
    /\ th' = [th EXCEPT ![t].pc = "p_load", ![t].op = "max_priority"]
    /\ UNCHANGED << now, config, backendVars, clientVars, cacheVars, perTableVars, queryVars,
                    refresh_failures >>

\* Lines 162-170: the load and the clamp.
PLoad(t) ==
    /\ th[t].pc = "p_load"
    /\ th' = [th EXCEPT ![t] =
                 Finish([@ EXCEPT !.p = max_priority, !.clamped = MaxPriority], "ok")]
    /\ UNCHANGED << now, config, backendVars, clientVars, cacheVars, perTableVars, queryVars,
                    refresh_failures >>

ServerRosterStep(t) ==
    \/ RStore(t) \/ RWrite(t) \/ ULoad(t) \/ UZero(t) \/ DLoad(t)
    \/ MEmpty(t) \/ MZero(t) \/ MScan(t) \/ MStore(t) \/ PLoad(t)

\* ----------------------------------------------------------------- init

\* The thread is between taking status_mutex (line 1151) and returning from
\* init: it holds the mutex.
HoldsStatusMutex(t) ==
    th[t].pc \in {"n_recheck", "n_mlock", "n_ocp", "n_root", "n_tables", "n_reset",
                  "n_ts"}

\* init, lines 1146-1149: the look at initialized before the lock.
NCheck(t) ==
    /\ th[t].pc = "n_check"
    /\ IF initialized
       THEN th' = [th EXCEPT ![t] = Finish(@, "ok")]
       ELSE th' = [th EXCEPT ![t].pc = "n_lock"]
    /\ UNCHANGED << now, config, backendVars, clientVars, cacheVars, perTableVars, queryVars,
                    refresh_failures >>

\* Line 1151: status_mutex.lock().
NLock(t) ==
    /\ th[t].pc = "n_lock"
    /\ \A u \in Threads : ~HoldsStatusMutex(u)
    /\ th' = [th EXCEPT ![t].pc = "n_recheck"]
    /\ UNCHANGED << now, config, backendVars, clientVars, cacheVars, perTableVars, queryVars,
                    refresh_failures >>

\* Lines 1152-1157: the second look, under the mutex; then initialized is
\* stored, before init_metadata is called.
NRecheck(t) ==
    /\ th[t].pc = "n_recheck"
    /\ IF initialized
       THEN /\ th' = [th EXCEPT ![t] = Finish(@, "ok")]
            /\ UNCHANGED initialized
       ELSE /\ initialized' = TRUE
            /\ th' = [th EXCEPT ![t].pc = "n_mlock"]
    /\ UNCHANGED << now, config, backendVars, closed, table_roster, server_roster,
                    max_priority, ocp_model, connection_pools, last_refresh_metadata_ts,
                    refresh_metadata_mutex, cacheVars, perTableVars, queryVars,
                    refresh_failures >>

\* init_metadata, line 1275: refresh_metadata_mutex.lock().
NMetaLock(t) ==
    /\ th[t].pc = "n_mlock"
    /\ refresh_metadata_mutex = 0
    /\ refresh_metadata_mutex' = t
    /\ th' = [th EXCEPT ![t].pc = "n_ocp"]
    /\ UNCHANGED << now, config, backendVars, initialized, closed, table_roster, server_roster,
                    max_priority, ocp_model, connection_pools, last_refresh_metadata_ts,
                    cacheVars, perTableVars, queryVars, refresh_failures >>

\* Lines 1276-1282: the directory is loaded and stored, or the load fails and
\* init returns the error.
NOcp(t) ==
    /\ th[t].pc = "n_ocp"
    /\ \/ /\ th' = [th EXCEPT ![t] = Finish(@, "err")]
          /\ refresh_metadata_mutex' = 0
          /\ UNCHANGED ocp_model
       \/ \E obs \in config.observers :
            /\ ocp_model' = obs
            /\ th' = [th EXCEPT ![t].pc = "n_root"]
            /\ UNCHANGED refresh_metadata_mutex
    /\ UNCHANGED << now, config, backendVars, initialized, closed, table_roster, server_roster,
                    max_priority, connection_pools, last_refresh_metadata_ts,
                    cacheVars, perTableVars, queryVars, refresh_failures >>

\* Lines 1284-1294: the root-server entry is loaded from an observer, or not.
NRoot(t) ==
    /\ th[t].pc = "n_root"
    /\ \/ /\ th' = [th EXCEPT ![t] = Finish(@, "err")]
          /\ refresh_metadata_mutex' = 0
       \/ \E root \in [Addrs -> {"active", "inactive", "absent"}] :
            /\ \A a \in Addrs \ config.addrs : root[a] = "absent"
            /\ th' = [th EXCEPT ![t].pc = "n_tables", ![t].root = root]
            /\ UNCHANGED refresh_metadata_mutex
    /\ UNCHANGED << now, config, backendVars, initialized, closed, table_roster, server_roster,
                    max_priority, ocp_model, connection_pools, last_refresh_metadata_ts,
                    cacheVars, perTableVars, queryVars, refresh_failures >>

\* Lines 1296-1312: add_ob_table for every active replica; building the handle
\* of an address can fail, the handles added before the failing one stay.
NTables(t) ==
    /\ th[t].pc = "n_tables"
    /\ LET servers == ActiveAddrs(th[t].root)
           needed == servers \ table_roster
       IN \/ /\ table_roster' = table_roster \cup servers
             /\ connection_pools' = connection_pools \cup needed
             /\ th' = [th EXCEPT ![t].pc = "n_reset", ![t].servers = servers]
             /\ UNCHANGED refresh_metadata_mutex
          \/ \E f \in needed \ connection_pools : \E added \in SUBSET (needed \ {f}) :
               /\ table_roster' = table_roster \cup added
               /\ connection_pools' = connection_pools \cup added
               /\ th' = [th EXCEPT ![t] = Finish(@, "err")]
               /\ refresh_metadata_mutex' = 0
    /\ UNCHANGED << now, config, backendVars, initialized, closed, server_roster, max_priority,
                    ocp_model, last_refresh_metadata_ts, cacheVars, perTableVars,
                    queryVars, refresh_failures >>

\* Line 1314 and ServerRoster::reset.
NReset(t) ==
    /\ th[t].pc = "n_reset"
    /\ max_priority' = 0
    /\ server_roster' = th[t].servers
    /\ th' = [th EXCEPT ![t].pc = "n_ts"]
    /\ UNCHANGED << now, config, backendVars, initialized, closed, table_roster, ocp_model,
                    connection_pools, last_refresh_metadata_ts, refresh_metadata_mutex,
                    cacheVars, perTableVars, queryVars, refresh_failures >>

\* Lines 1315-1318: the timestamp is stored and init returns Ok.
NTimestamp(t) ==
    /\ th[t].pc = "n_ts"
    /\ last_refresh_metadata_ts' = now
    /\ refresh_metadata_mutex' = 0
    /\ th' = [th EXCEPT ![t] = Finish(@, "ok")]
    /\ UNCHANGED << now, config, backendVars, initialized, closed, table_roster, server_roster,
                    max_priority, ocp_model, connection_pools, cacheVars, perTableVars,
                    queryVars, refresh_failures >>

InitStep(t) ==
    \/ NCheck(t) \/ NLock(t) \/ NRecheck(t) \/ NMetaLock(t) \/ NOcp(t) \/ NRoot(t)
    \/ NTables(t) \/ NReset(t) \/ NTimestamp(t)

\* A thread calls init().
CallInit(t) ==
    /\ th[t].pc = "idle"
    /\ t \in config.threads
    /\ th' = [th EXCEPT ![t].pc = "n_check", ![t].op = "init"]
    /\ UNCHANGED << now, config, backendVars, clientVars, cacheVars, perTableVars, queryVars,
                    refresh_failures >>

\* A thread calls sync_refresh_metadata() itself, as the refresh of a table
\* does at lines 1002 and 1010.
CallSyncRefreshMetadata(t) ==
    /\ th[t].pc = "idle"
    /\ t \in config.threads
    /\ th' = [th EXCEPT ![t] = SCall([@ EXCEPT !.op = "sync_refresh_metadata"], "s_done")]
    /\ UNCHANGED << now, config, backendVars, clientVars, cacheVars, perTableVars, queryVars,
                    refresh_failures >>

\* The call of sync_refresh_metadata has returned to its caller.
SDone(t) ==
    /\ th[t].pc = "s_done"
    /\ th' = [th EXCEPT ![t] = Finish(@, th[t].s_res)]
    /\ UNCHANGED << now, config, backendVars, clientVars, cacheVars, perTableVars, queryVars,
                    refresh_failures >>

\* ------------------------------------------------------------ configuration

\* ClientConfig and the deployment: the fields the modelled code reads.
BaseConfig ==
    [running_mode |-> "Normal",
     threads |-> Threads,
     addrs |-> {"a", "b"},
     observers |-> {{"a", "b"}},
     leaders |-> {"a", "b"},
     tables |-> Tables,
     ops |-> {"execute", "execute_batch", "execute_query", "execute_stream"},
     keys |-> {0, 1},
     batches |-> {NoBatch},
     column_lists |-> {<< "c1" >>},
     priority |-> [a \in Addrs |-> 0],
     priorities |-> {0},
     operation_types |-> {"get"},
     sqls |-> {},
     catalog |-> [tb \in Tables |-> IF tb = "t1" THEN "plain" ELSE "hash2"],
     table_entry_refresh_interval_base |-> 1,
     table_entry_refresh_interval_ceiling |-> 2,
     table_entry_refresh_try_times |-> 2,
     table_entry_refresh_continuous_failure_ceiling |-> 1,
     runtime_continuous_failure_ceiling |-> 1,
     metadata_refresh_interval |-> 1,
     rpc_retry_limit |-> 2,
     query_concurrency_limit |-> 1]

\* The client as its construction leaves it (internal_new, lines 252-288).
Constructed ==
    /\ now = StartTime
    /\ initialized = FALSE
    /\ closed = FALSE
    /\ table_roster = {}
    /\ server_roster = {}
    /\ max_priority = 0
    /\ ocp_model = {}
    /\ connection_pools = {}
    /\ table_locations = [tb \in Tables |-> NoEntry]
    /\ table_mutexs = [tb \in Tables |-> 0]
    /\ mutex_holder = [m \in MutexIds |-> 0]
    /\ table_row_key_element = [tb \in Tables |-> NoMap]
    /\ table_continuous_failures = [tb \in Tables |-> 0]
    /\ counter_value = [c \in CounterIds |-> 0]
    /\ table_batch_op_thread_pools = {}
    /\ refresh_failures = 0
    /\ refresh_metadata_mutex = 0
    /\ last_refresh_metadata_ts = 0
    /\ permits_in_use = 0
    /\ rpcs_in_flight = 0
    /\ backend_tables = Tables
    /\ backend_rows = [tb \in Tables |-> {}]
    /\ truncated = [tb \in Tables |-> NotTruncated]
    /\ th = [t \in Threads |-> IdleThread]

\* ---------------------------------------------------- the metadata cache

\* A deployment of one backend; the calls are about the partitioned table.
CacheConfig ==
    [BaseConfig EXCEPT !.addrs = {"a"}, !.observers = {{"a"}}, !.leaders = {"a"},
                       !.tables = {"t2"}]

\* The cache of an initialised client whose roster holds every address and
\* whose partitioned table has its row-key element map registered.
InitCache ==
    /\ config = CacheConfig
    /\ now = StartTime
    /\ initialized = TRUE
    /\ closed = FALSE
    /\ table_roster = CacheConfig.addrs
    /\ server_roster = CacheConfig.addrs
    /\ max_priority = 0
    /\ ocp_model = CacheConfig.addrs
    /\ connection_pools = CacheConfig.addrs
    /\ table_locations = [tb \in Tables |-> NoEntry]
    /\ table_mutexs = [tb \in Tables |-> 0]
    /\ mutex_holder = [m \in MutexIds |-> 0]
    /\ table_row_key_element =
           [tb \in Tables |-> IF IsPartitionTable(CacheConfig.catalog[tb])
                              THEN [present |-> TRUE, map |-> {<< "c1", 0 >>}]
                              ELSE NoMap]
    /\ table_continuous_failures = [tb \in Tables |-> 0]
    /\ counter_value = [c \in CounterIds |-> 0]
    /\ table_batch_op_thread_pools = {}
    /\ refresh_failures = 0
    /\ refresh_metadata_mutex = 0
    /\ last_refresh_metadata_ts = StartTime
    /\ permits_in_use = 0
    /\ rpcs_in_flight = 0
    /\ backend_tables = Tables
    /\ backend_rows = [tb \in Tables |-> {}]
    /\ truncated = [tb \in Tables |-> NotTruncated]
    /\ th = [t \in Threads |-> IdleThread]

NextCache ==
    \/ \E t \in Threads :
         \/ CallGetOrRefresh(t) \/ CallInvalidate(t) \/ CallRefreshAll(t)
         \/ GetOrRefreshStep(t) \/ SyncRefreshStep(t) \/ InvalidateStep(t)
         \/ RNext(t) \/ GDone(t) \/ Return(t)
    \/ Tick

SpecCache == InitCache /\ [][NextCache]_vars

\* A thread is inside get_or_refresh_table_entry_with_blocking, the calls of
\* sync_refresh_metadata it makes there included.
InGetOrRefresh(t) ==
    \/ th[t].pc \in {"g_fast", "g_mutex", "g_lock", "g_dcheck", "g_loop", "g_insert",
                     "g_synced", "g_final", "g_exit"}
    \/ /\ th[t].pc \in {"s_check", "s_lock", "s_recheck", "s_ocp", "s_root", "s_roster",
                        "s_reset", "s_ts"}
       /\ th[t].s_ret \in {"g_synced", "g_final"}

\* A thread is in the refresh section of a table: it has acquired the table's mutex
\* in get_or_refresh_table_entry_with_blocking and has not returned yet.
InRefreshSection(t, tb) == th[t].locked /\ th[t].g_table = tb

\* C3: for every table at most one thread at a time is inside the table's refresh
\* section, whatever get_or_refresh_table_entry calls, scheduled refreshes and
\* invalidate_table calls interleave.
C3_OneRefresherPerTable ==
    \A tb \in Tables : \A t, u \in Threads :
        (InRefreshSection(t, tb) /\ InRefreshSection(u, tb)) => t = u

\* The mutex a call of get_or_refresh_table_entry contends on: the one it has
\* cloned, before that the one registered for the table.
MutexOf(t) == IF th[t].mtx # 0 THEN th[t].mtx ELSE table_mutexs[th[t].g_table]

\* Another thread holds that mutex in a blocking refresh of the same table.
HeldAgainst(t) ==
    /\ MutexOf(t) # 0
    /\ \E u \in Threads \ {t} :
         /\ mutex_holder[MutexOf(t)] = u
         /\ InRefreshSection(u, th[t].g_table)
         /\ th[u].g_blocking

\* A thread is in a call get_or_refresh_table_entry(T, refresh=true, blocking=false).
NonBlockingRefresh(t) == InGetOrRefresh(t) /\ th[t].g_refresh /\ ~th[t].g_blocking

\* The thread's call of get_or_refresh_table_entry returns in this step.
GReturns(t) == InGetOrRefresh(t) /\ th'[t].pc = th[t].g_ret

\* C4 as the spec states it: a non-blocking refresh made while another thread holds
\* the table's mutex in a blocking refresh returns a Lock error and leaves the cache
\* as it is.
C4_NonBlockingYieldsLock ==
    [][\A t \in Threads :
         (NonBlockingRefresh(t) /\ HeldAgainst(t) /\ th'[t] # th[t])
         => /\ table_locations' = table_locations
            /\ GReturns(t) => th'[t].g_res = "Lock"]_vars

\* C4, amended: such a call leaves the cache as it is and returns a Lock error,
\* or, when its first look at the cache finds an entry that is not stale, that entry.
C4_NonBlockingLockOrCached ==
    [][\A t \in Threads :
         (NonBlockingRefresh(t) /\ HeldAgainst(t) /\ th'[t] # th[t])
         => /\ table_locations' = table_locations
            /\ GReturns(t) =>
                 \/ th'[t].g_res = "Lock" /\ th[t].pc = "g_lock"
                 \/ /\ th'[t].g_res = "ok"
                    /\ th[t].pc = "g_fast"
                    /\ th'[t].g_entry = table_locations[th[t].g_table]
                    /\ th'[t].g_entry # NoEntry
                    /\ ~NeedRefresh(th'[t].g_entry)]_vars

\* C4's case: a non-blocking refresh has returned Lock while another thread is in
\* its blocking refresh of the same table.
C4_Witness ==
    \E t \in Threads : \E u \in Threads \ {t} :
        /\ th[t].pc = "g_done" /\ th[t].g_res = "Lock"
        /\ th[t].g_refresh /\ ~th[t].g_blocking
        /\ InRefreshSection(u, th[t].g_table) /\ th[u].g_blocking
        /\ th[u].pc \in {"g_loop", "g_insert", "g_synced", "g_final"}

\* --------------------------------------------------- the execution engine

\* The row-key element maps registered before the operations start: one for
\* every partitioned table of the catalog.
Registered(cfg) ==
    [tb \in Tables |-> IF IsPartitionTable(cfg.catalog[tb])
                       THEN [present |-> TRUE, map |-> {<< "c1", 0 >>}]
                       ELSE NoMap]

\* The client in one of the states of its life: constructed, after an init()
\* that found the given replicas active, and after close() in either of them.
LoadedClient(cfg, inited, shut, active) ==
    /\ config = cfg
    /\ now = StartTime
    /\ initialized = inited
    /\ closed = shut
    /\ table_roster = IF inited /\ ~shut THEN active ELSE {}
    /\ server_roster = IF inited THEN active ELSE {}
    /\ max_priority = 0
    /\ ocp_model = IF inited THEN cfg.addrs ELSE {}
    /\ connection_pools = IF inited THEN active ELSE {}
    /\ table_locations = [tb \in Tables |-> NoEntry]
    /\ table_mutexs = [tb \in Tables |-> 0]
    /\ mutex_holder = [m \in MutexIds |-> 0]
    /\ table_row_key_element = Registered(cfg)
    /\ table_continuous_failures = [tb \in Tables |-> 0]
    /\ counter_value = [c \in CounterIds |-> 0]
    /\ table_batch_op_thread_pools = {}
    /\ refresh_failures = 0
    /\ refresh_metadata_mutex = 0
    /\ last_refresh_metadata_ts = IF inited THEN StartTime ELSE 0
    /\ permits_in_use = 0
    /\ rpcs_in_flight = 0
    /\ backend_tables = Tables
    /\ backend_rows = [tb \in Tables |-> {}]
    /\ truncated = [tb \in Tables |-> NotTruncated]
    /\ th = [t \in Threads |-> IdleThread]

\* The same with every address of the deployment active at init().
Lifecycle(cfg, inited, shut) == LoadedClient(cfg, inited, shut, cfg.addrs)

\* One backend, one partitioned table, one caller.
ExecConfig ==
    [BaseConfig EXCEPT !.threads = {1}, !.addrs = {"a"}, !.observers = {{"a"}},
                       !.leaders = {"a"}, !.tables = {"t2"}, !.keys = {0},
                       !.batches = {[ops |-> << 0, 1 >>, atomic |-> FALSE]}]

InitExec ==
    \E limit \in 0 .. 2, inited \in BOOLEAN, shut \in BOOLEAN :
        Lifecycle([ExecConfig EXCEPT !.rpc_retry_limit = limit], inited, shut)

NextExec ==
    \/ \E t \in Threads :
         \/ CallExecute(t) \/ CallExecuteBatch(t)
         \/ CallExecuteQuery(t) \/ CallExecuteStream(t)
         \/ ELoop(t) \/ EEntry(t) \/ ERpc(t) \/ BEntry(t) \/ BRpc(t) \/ ERetry(t)
         \/ OnTableOpFailureStep(t) \/ QueryStep(t)
         \/ GetOrRefreshStep(t) \/ SyncRefreshStep(t) \/ Return(t)
    \/ Tick

SpecExec == InitExec /\ [][NextExec]_vars

\* WF: a caller that is inside a call keeps running, and a request sent to a
\* backend is answered or times out.
FairSpecExec == SpecExec /\ WF_vars(NextExec)

\* The operations of the execution engine.
EngineOps == {"execute", "execute_batch", "execute_query", "execute_stream"}

\* The thread's operation returns in this step.
Returns(t) == th[t].pc # "done" /\ th'[t].pc = "done"

\* C1: when an execute answered with OB_SUCCESS, an execute_batch, an execute_query
\* or an execute_stream returns Ok for table T, the continuous-failure counter of T
\* is zero, whatever failures came before.
C1_SuccessResetsCounter ==
    [][\A t \in Threads :
         (Returns(t) /\ th'[t].op \in EngineOps /\ th'[t].res = "ok")
         => ContinuousFailures(th[t].table)' = 0]_vars

\* C1's case: an execute has succeeded at its second attempt or later, so after a
\* failure that was counted, and the table's counter exists and is zero.
C1_Witness ==
    \E t \in Threads :
        /\ th[t].pc = "done" /\ th[t].op = "execute" /\ th[t].res = "ok"
        /\ th[t].attempt >= 2
        /\ table_continuous_failures[th[t].table] # 0
        /\ ContinuousFailures(th[t].table) = 0

\* C8: a single-row or batch operation on a client that is not initialised or is
\* closed resolves no table entry, sends nothing to a backend and returns
\* NotInitialized or AlreadyClosed.
C8_LifecycleCheckedFirst ==
    \A t \in Threads :
        (th[t].op \in {"execute", "execute_batch"} /\ CheckStatus # "ok")
        => /\ ~InGetOrRefresh(t)
           /\ th[t].pc \notin {"e_rpc", "b_rpc"}
           /\ th[t].pc = "done" => th[t].res = CheckStatus

\* A step of execute or execute_batch that starts an attempt.
StartsAttempt(t) ==
    /\ th[t].op \in {"execute", "execute_batch"}
    /\ th[t].pc = "e_loop"
    /\ th'[t].attempt = th[t].attempt + 1

\* C9 as the spec states it: a call of execute or execute_batch has made at least
\* one and at most rpc_retry_limit attempts when it returns.
C9_AtMostRetryLimit ==
    [][\A t \in Threads :
         (Returns(t) /\ th'[t].op \in {"execute", "execute_batch"})
         => /\ th'[t].attempt >= 1
            /\ th'[t].attempt <= config.rpc_retry_limit]_vars

\* C9, amended: a call of execute or execute_batch makes at least one attempt and at
\* most max(1, rpc_retry_limit); an attempt after the first follows a failed one
\* whose error has need_retry(); and every call returns.
C9_AttemptsBounded ==
    /\ [][\A t \in Threads :
            /\ (Returns(t) /\ th'[t].op \in {"execute", "execute_batch"})
               => /\ th'[t].attempt >= 1
                  /\ th'[t].attempt <= Max(1, config.rpc_retry_limit)
            /\ (StartsAttempt(t) /\ th[t].attempt >= 1)
               => /\ th[t].err.need_retry
                  /\ th[t].attempt < config.rpc_retry_limit]_vars
    /\ \A t \in Threads :
         (th[t].op \in {"execute", "execute_batch"}) ~> (th[t].pc = "done")

\* C9's case: a call has returned an error after using up a retry limit of two.
C9_Witness ==
    \E t \in Threads :
        /\ th[t].pc = "done" /\ th[t].op \in {"execute", "execute_batch"}
        /\ th[t].res # "ok" /\ th[t].err.need_retry
        /\ config.rpc_retry_limit = 2 /\ th[t].attempt = 2

\* ------------------------------------------------------------ batches

\* The partitions the row keys of the operations map to on a partitioned table.
PartKeys == {0, 1}

\* Every batch of at most MaxOps operations, atomic or not.
Batches ==
    {[ops |-> o, atomic |-> a] :
        o \in UNION {[1 .. n -> PartKeys] : n \in 0 .. MaxOps}, a \in BOOLEAN}

BatchConfig ==
    [ExecConfig EXCEPT !.ops = {"execute_batch"}, !.batches = Batches]

InitBatch == Lifecycle(BatchConfig, TRUE, FALSE)

NextBatch ==
    \/ \E t \in Threads :
         \/ CallExecuteBatch(t) \/ ELoop(t) \/ BEntry(t) \/ BRpc(t) \/ ERetry(t)
         \/ OnTableOpFailureStep(t)
         \/ GetOrRefreshStep(t) \/ SyncRefreshStep(t) \/ Return(t)
    \/ Tick

SpecBatch == InitBatch /\ [][NextBatch]_vars

\* The partition ids the operations of a batch map to with the given entry.
PartitionsOf(entry, batch) ==
    {GetPartition(entry, batch.ops[i]) : i \in 1 .. Len(batch.ops)}

\* The entry of a table as far as get_partition reads it.
CatalogEntry(tb) == [NoEntry EXCEPT !.shape = config.catalog[tb]]

\* C6: an attempt of execute_batch on an atomic batch whose operations map to more
\* than one partition fails with OB_INVALID_PARTITION without sending a sub-batch,
\* and so does the call; an atomic batch on one partition goes out as one atomic
\* sub-batch holding every operation.
C6_AtomicBatchOnePartition ==
    /\ [][\A t \in Threads :
            (/\ th[t].op = "execute_batch" /\ th[t].batch.atomic
             /\ th[t].pc = "e_entry" /\ th[t].g_res = "ok" /\ th'[t] # th[t])
            => LET n == Cardinality(PartitionsOf(th[t].g_entry, th[t].batch)) IN
               /\ n > 1 => /\ th'[t].pc = "f_start"
                           /\ th'[t].err.kind = "OB_INVALID_PARTITION"
                           /\ th'[t].nsent = th[t].nsent
               /\ th'[t].pc = "b_rpc"
                    => /\ n = 1
                       /\ Len(th'[t].sent) = 1
                       /\ th'[t].sent[1].atomic
                       /\ th'[t].sent[1].ops = [i \in 1 .. Len(th[t].batch.ops) |-> i]
                       /\ th'[t].sent[1].part \in PartitionsOf(th[t].g_entry, th[t].batch)]_vars
    /\ [](\A t \in Threads :
            (/\ th[t].pc = "done" /\ th[t].op = "execute_batch" /\ th[t].batch.atomic
             /\ Cardinality(PartitionsOf(CatalogEntry(th[t].table), th[t].batch)) > 1)
            => /\ th[t].res \in {"OB_INVALID_PARTITION", "Refresh"}
               /\ th[t].nsent = 0)

\* C6's case: an atomic batch over two partitions has been refused.
C6_Witness ==
    \E t \in Threads :
        /\ th[t].pc = "done" /\ th[t].op = "execute_batch" /\ th[t].batch.atomic
        /\ Cardinality(PartitionsOf(CatalogEntry(th[t].table), th[t].batch)) = 2
        /\ th[t].res = "OB_INVALID_PARTITION" /\ th[t].nsent = 0

\* C7: a non-atomic batch that succeeds returns one result for each operation, and
\* the results of two operations of one partition stand in the order the operations
\* had in the input.
C7_BatchResultsInBucketOrder ==
    \A t \in Threads :
        (/\ th[t].pc = "done" /\ th[t].op = "execute_batch" /\ th[t].res = "ok"
         /\ ~th[t].batch.atomic)
        => LET ops == th[t].batch.ops
               res == th[t].results
               e == CatalogEntry(th[t].table)
           IN /\ Len(res) = Len(ops)
              /\ {res[i] : i \in 1 .. Len(res)} = 1 .. Len(ops)
              /\ \A i, j \in 1 .. Len(res) :
                   (i < j /\ GetPartition(e, ops[res[i]]) = GetPartition(e, ops[res[j]]))
                   => res[i] < res[j]

\* C7's case: a batch of two partitions, one of them with two operations, succeeded.
C7_Witness ==
    \E t \in Threads :
        /\ th[t].pc = "done" /\ th[t].op = "execute_batch" /\ th[t].res = "ok"
        /\ ~th[t].batch.atomic /\ th[t].nsent >= 2
        /\ Len(th[t].results) = 3
        /\ Cardinality(PartitionsOf(CatalogEntry(th[t].table), th[t].batch)) = 2

\* ------------------------------------------------------------ queries

\* Two callers pull partitions of a query on one table; one permit.
QueryConfig ==
    [ExecConfig EXCEPT !.threads = Threads,
                       !.ops = {"execute_query", "execute_stream"}]

InitQuery == Lifecycle(QueryConfig, TRUE, FALSE)

NextQuery ==
    \/ \E t \in Threads :
         \/ CallExecuteQuery(t) \/ CallExecuteStream(t) \/ QueryStep(t)
         \/ OnTableOpFailureStep(t) \/ ERetry(t)
         \/ GetOrRefreshStep(t) \/ SyncRefreshStep(t) \/ Return(t)
    \/ Tick

SpecQuery == InitQuery /\ [][NextQuery]_vars

\* The callers whose execute_query has its request with the backend.
QueriesInFlight == {t \in Threads : th[t].op = "execute_query" /\ th[t].pc = "q_rpc"}

\* C2: with query_concurrency_limit = N no more than N query RPCs of execute_query
\* are in flight, each of them under a permit that is held until it has returned.
C2_PermitHeldDuringQuery ==
    config.query_concurrency_limit >= 0
    => /\ Cardinality(QueriesInFlight) <= config.query_concurrency_limit
       /\ Cardinality(QueriesInFlight) <= permits_in_use

\* ------------------------------------------------------- roster metadata

\* Two backends; the leader of the table is one of them.
MetaConfig ==
    [BaseConfig EXCEPT !.tables = {"t2"}, !.keys = {0}]

InitMeta == Lifecycle(MetaConfig, TRUE, FALSE)

NextMeta ==
    \/ \E t \in Threads :
         \/ CallGetTable(t) \/ TEntry(t)
         \/ GetOrRefreshStep(t) \/ SyncRefreshStep(t) \/ Return(t)
    \/ Tick

SpecMeta == InitMeta /\ [][NextMeta]_vars

\* The thread's call of sync_refresh_metadata returns Ok in this step.
SyncReturnsOk(t) ==
    /\ th[t].pc \in {"s_check", "s_recheck", "s_ts"}
    /\ th'[t].pc = th[t].s_ret
    /\ th'[t].s_res = "ok"

\* C5 as the spec states it: whenever sync_refresh_metadata returns Ok, the key set
\* of table_roster is the set of the active replicas of the root-server entry (the
\* one the call loaded, or the last one loaded when the call is cut short).
C5_RegistryIsActiveSet ==
    [][\A t \in Threads :
         SyncReturnsOk(t)
         => table_roster' = IF th[t].pc = "s_ts" THEN ActiveAddrs(th[t].root)
                            ELSE server_roster]_vars

\* C5, amended: a call that reloads the root-server entry leaves table_roster equal
\* to the set of its active replicas when it releases the roster, and returns Ok
\* with that set still contained in table_roster and making up server_roster.
C5_ReloadReconcilesRegistry ==
    [][\A t \in Threads :
         /\ (th[t].pc = "s_roster" /\ th'[t].pc = "s_reset")
            => table_roster' = ActiveAddrs(th[t].root)
         /\ (th[t].pc = "s_ts" /\ SyncReturnsOk(t))
            => /\ ActiveAddrs(th[t].root) \subseteq table_roster'
               /\ server_roster' = ActiveAddrs(th[t].root)]_vars

\* C5's case: a reload has just dropped the handle of a backend that is no longer
\* active (its connection pool is still there).
C5_Witness ==
    \E t \in Threads :
        /\ th[t].pc = "s_reset"
        /\ table_roster = ActiveAddrs(th[t].root)
        /\ connection_pools \ table_roster # {}

\* ------------------------------------------------- row-key element registry

ColumnNames == {"c1", "c2"}

\* Every list of at most MaxCols column names, repeated names included.
ColumnLists == UNION {[1 .. n -> ColumnNames] : n \in 0 .. MaxCols}

\* One caller registers row-key columns, one call after the other.
RowKeyConfig ==
    [BaseConfig EXCEPT !.threads = {1}, !.column_lists = ColumnLists]

InitRowKey == Constructed /\ config = RowKeyConfig

NextRowKey ==
    \E t \in Threads :
        CallAddRowKeyElement(t) \/ ACheck(t) \/ AInsert(t) \/ Return(t)

SpecRowKey == InitRowKey /\ [][NextRowKey]_vars

\* The thread's call of add_row_key_element registers its map in this step.
Registers(t) == th[t].pc = "a_insert" /\ th'[t].pc = "done"

\* C10 as the spec states it: a map that is registered stays as it is under later
\* calls, and the map a call registers gives column i of its list the ordinal i.
C10_FirstCallWinsOrdinalIsIndex ==
    [][/\ \A tb \in Tables :
            table_row_key_element[tb].present
            => table_row_key_element'[tb] = table_row_key_element[tb]
       /\ \A t \in Threads :
            Registers(t)
            => \A i \in 1 .. Len(th[t].columns) :
                 << th[t].columns[i], i - 1 >>
                     \in table_row_key_element'[th[t].table].map]_vars

\* C10, amended: a map that is registered stays as it is under later calls, and the
\* map a call registers gives every column name of its list the ordinal of the
\* last position of that name (position i for a list without repeated names).
C10_FirstCallWinsLastOrdinal ==
    [][/\ \A tb \in Tables :
            table_row_key_element[tb].present
            => table_row_key_element'[tb] = table_row_key_element[tb]
       /\ \A t \in Threads :
            Registers(t)
            => LET columns == th[t].columns
                   last == {i \in 1 .. Len(columns) :
                              \A j \in 1 .. Len(columns) : j > i => columns[j] # columns[i]}
               IN /\ table_row_key_element'[th[t].table].present
                  /\ table_row_key_element'[th[t].table].map
                       = {<< columns[i], i - 1 >> : i \in last}]_vars

\* C10's case: a second call with other columns has returned, and the map of the
\* table is not the one its columns would give.
C10_Witness ==
    \E t \in Threads :
        /\ th[t].pc = "done" /\ th[t].op = "add_row_key_element"
        /\ table_row_key_element[th[t].table].present
        /\ table_row_key_element[th[t].table].map
             # RowKeyElement(th[t].columns, Len(th[t].columns))
        /\ table_row_key_element[th[t].table].map = {<< "c1", 0 >>, << "c2", 1 >>}

\* ----------------------------------------------------------- server roster

\* Priorities of backends, inside and outside [-MAX_PRIORITY, MAX_PRIORITY].
Priorities == {-51, 0, 3, 51}

RosterConfig == [BaseConfig EXCEPT !.priorities = Priorities]

\* Two threads share the roster of a client whose backends have any of the
\* priorities.
InitRoster ==
    /\ Constructed
    /\ \E pa, pb \in Priorities :
         config = [RosterConfig EXCEPT !.priority["a"] = pa, !.priority["b"] = pb]

NextRoster ==
    \E t \in Threads :
        \/ CallReset(t) \/ CallUpgradeMaxPriority(t) \/ CallDowngradeMaxPriority(t)
        \/ CallMaxPriority(t) \/ ServerRosterStep(t) \/ Return(t)

SpecRoster == InitRoster /\ [][NextRoster]_vars

\* C11: whatever the cached priority is when max_priority() loads it, the call
\* returns a value in [-50, 50]: the loaded value when it is in the range, and
\* otherwise the bound nearer to it.
C11_MaxPriorityClamped ==
    \A t \in Threads :
        th[t].pc = "done" /\ th[t].op = "max_priority"
        => /\ th[t].clamped \in -MAX_PRIORITY .. MAX_PRIORITY
           /\ th[t].p \in -MAX_PRIORITY .. MAX_PRIORITY => th[t].clamped = th[t].p
           /\ th[t].p < -MAX_PRIORITY => th[t].clamped = -MAX_PRIORITY
           /\ th[t].p > MAX_PRIORITY => th[t].clamped = MAX_PRIORITY

\* C11's case: upgrades and downgrades have left a cached value below the range,
\* and max_priority() has returned the lower bound for it.
C11_Witness ==
    \E t \in Threads :
        /\ th[t].pc = "done" /\ th[t].op = "max_priority"
        /\ th[t].p < -MAX_PRIORITY
        /\ th[t].clamped = -MAX_PRIORITY

\* C12: in the step in which reset(members) returns, get_members() is members
\* and max_priority() is 0, whatever the other threads are doing.
C12_ResetIsAtomic ==
    [][\A t \in Threads :
         th[t].pc = "r_write" /\ th'[t].pc = "done"
         => /\ server_roster' = th[t].servers
            /\ MaxPriority' = 0]_vars

\* ------------------------------------------------------------- key ranges

\* One caller resolves key ranges of one table; the entry of the table names
\* one leader for all partitions, two leaders, or none.
RangeConfig ==
    [BaseConfig EXCEPT !.threads = {1}, !.tables = {"t2"},
                       !.leaders = {"a", "ab", "none"}]

\* The table has any of the partitionings.
InitRange ==
    \E shape \in Shapes :
        Lifecycle([RangeConfig EXCEPT !.catalog["t2"] = shape], TRUE, FALSE)

NextRange ==
    \/ \E t \in Threads :
         \/ CallGetTables(t) \/ GetTablesStep(t)
         \/ GetOrRefreshStep(t) \/ SyncRefreshStep(t) \/ Return(t)
    \/ Tick

SpecRange == InitRange /\ [][NextRange]_vars

\* C13: get_partition_leaders, for every key range and both inclusivity flags,
\* fails on a level-Two entry with the PartitionError "Unsupported partition level
\* two"; on an entry that is not partitioned or of level Zero the only part id
\* it resolves is 0 (its one pair is for part id 0, and an entry without a
\* leader for part id 0 gives NotFound for part id 0); and what get_tables returns
\* for such a table is one pair, for part id 0.
C13_RangeLevelTwoUnsupported ==
    /\ [][\A t \in Threads :
            th[t].pc = "l_entry" /\ th[t].g_res = "ok" /\ th'[t].pc # "l_entry"
            => LET shape == th[t].g_entry.shape
               IN /\ IsPartitionTable(shape) /\ Level(shape) = "Two"
                     => /\ th'[t].pc = "done"
                        /\ th'[t].res = "PartitionError"
                        /\ th'[t].msg = "Unsupported partition level two"
                  /\ ~IsPartitionTable(shape) \/ Level(shape) = "Zero"
                     => \/ /\ th'[t].pc = "l_pair"
                           /\ Len(th'[t].pairs) = 1
                           /\ th'[t].pairs[1][1] = 0
                        \/ /\ th'[t].pc = "done"
                           /\ th'[t].res = "NotFound"
                           /\ th'[t].part_id = 0]_vars
    /\ [](\A t \in Threads :
            /\ th[t].pc = "done" /\ th[t].op = "get_tables" /\ th[t].res = "ok"
            /\ config.catalog[th[t].table] \in {"plain", "zero"}
            => Len(th[t].handles) = 1 /\ th[t].handles[1][1] = 0)

\* C13's case: a range of two keys, its end excluded, on the level-Two table has
\* been refused.
C13_Witness ==
    \E t \in Threads :
        /\ th[t].pc = "done" /\ th[t].op = "get_tables"
        /\ config.catalog[th[t].table] = "two"
        /\ th[t].range.start # th[t].range.end /\ ~th[t].range.end_inclusive
        /\ th[t].res = "PartitionError"
        /\ th[t].msg = "Unsupported partition level two"

\* --------------------------------------------------------------- get_table

\* Row keys: a key a descriptor fails on, and keys of different buckets at
\* both levels.
RowKeys == {-1, 1, 2}

\* Two callers resolve row keys of one table whose entry names two leaders, or
\* none, after a refresh.
TableConfig ==
    [BaseConfig EXCEPT !.tables = {"t2"}, !.keys = RowKeys,
                       !.leaders = {"ab", "none"}]

InitTable ==
    \E shape \in {"hash2", "two", "two_nosub"} :
        Lifecycle([TableConfig EXCEPT !.catalog["t2"] = shape], TRUE, FALSE)

NextTable ==
    \/ \E t \in Threads :
         \/ CallGetTable(t) \/ TEntry(t)
         \/ GetOrRefreshStep(t) \/ SyncRefreshStep(t) \/ Return(t)
    \/ Tick

SpecTable == InitTable /\ [][NextTable]_vars

\* The thread's call of get_table returns Ok in this step.
GetTableReturnsOk(t) ==
    th[t].pc = "t_entry" /\ th'[t].pc = "done" /\ th'[t].res = "ok"

\* C14: when get_table(T, K, refresh) returns (part_id, handle), part_id is the
\* partition id get_partition computes from K on the entry the call got for T,
\* and handle is the handle the registry holds for the address of the leader of
\* part_id in that entry.
C14_GetTablePartitionAndLeader ==
    [][\A t \in Threads :
         GetTableReturnsOk(t)
         => LET entry == th[t].g_entry
                part_id == th'[t].part_id
                handle == th'[t].handles[1][2]
            IN /\ part_id = GetPartition(entry, th[t].key)
               /\ part_id \in PartIds(entry.shape)
               /\ th'[t].handles[1][1] = part_id
               /\ handle = LeaderOf(entry, part_id)
               /\ handle \in table_roster']_vars

\* C14's case: get_table has returned for a key of the first first-level and
\* the second sub-level bucket of the level-Two table.
C14_Witness ==
    \E t \in Threads :
        /\ th[t].pc = "done" /\ th[t].op = "get_table" /\ th[t].res = "ok"
        /\ config.catalog[th[t].table] = "two"
        /\ th[t].key = 2
        /\ th[t].part_id = TwoLevelPartId(0, 1)
        /\ th[t].handles = << << TwoLevelPartId(0, 1), "b" >> >>

\* ------------------------------------------------------------ invalidation

\* One caller registers row-key columns, looks tables up and invalidates them;
\* no table has a row-key element map before the first call.
InvalidateConfig ==
    [BaseConfig EXCEPT !.threads = {1}, !.addrs = {"a"}, !.observers = {{"a"}},
                       !.leaders = {"a"},
                       !.catalog = [tb \in Tables |-> "plain"]]

InitInvalidate == Lifecycle(InvalidateConfig, TRUE, FALSE)

NextInvalidate ==
    \/ \E t \in Threads :
         \/ CallAddRowKeyElement(t) \/ ACheck(t) \/ AInsert(t)
         \/ CallGetOrRefresh(t) \/ GDone(t) \/ GetOrRefreshStep(t)
         \/ SyncRefreshStep(t)
         \/ CallInvalidate(t) \/ InvalidateStep(t) \/ Return(t)
    \/ Tick

SpecInvalidate == InitInvalidate /\ [][NextInvalidate]_vars

\* C15: in the step in which invalidate_table(T) returns, the client has no
\* cached entry, no row-key element map, no failure counter, no mutex entry and
\* no batch-op thread pool for T.
C15_InvalidateRemovesAll ==
    [][\A t \in Threads :
         th[t].op = "invalidate_table" /\ th[t].pc # "done" /\ th'[t].pc = "done"
         => LET tb == th[t].table
            IN /\ table_locations'[tb] = NoEntry
               /\ table_row_key_element'[tb] = NoMap
               /\ table_continuous_failures'[tb] = 0
               /\ table_mutexs'[tb] = 0
               /\ tb \notin table_batch_op_thread_pools']_vars

\* ----------------------------------------------------------- SQL operations

\* One caller creates, drops, truncates and checks one table, and inserts and
\* gets rows of it.
SqlConfig ==
    [BaseConfig EXCEPT !.threads = {1}, !.addrs = {"a"}, !.observers = {{"a"}},
                       !.leaders = {"a"}, !.tables = {"t1"}, !.ops = {"execute"},
                       !.keys = {0}, !.operation_types = {"get", "insert"},
                       !.sqls = {[kind |-> "create", table |-> "t1"],
                                 [kind |-> "drop", table |-> "t1"]}]

\* The client before and after init().
InitSql == \E inited \in BOOLEAN : Lifecycle(SqlConfig, inited, FALSE)

NextSql ==
    \/ \E t \in Threads :
         \/ CallExecuteSql(t) \/ CallTruncateTable(t) \/ CallCheckTableExists(t)
         \/ XSql(t)
         \/ CallExecute(t) \/ ELoop(t) \/ EEntry(t) \/ ERpc(t) \/ ERetry(t)
         \/ OnTableOpFailureStep(t)
         \/ GetOrRefreshStep(t) \/ SyncRefreshStep(t) \/ Return(t)
    \/ Tick

SpecSql == InitSql /\ [][NextSql]_vars

\* The thread's call of the operation returns Ok in this step.
ReturnsOk(t, op) ==
    th[t].op = op /\ th[t].pc # "done" /\ th'[t].pc = "done" /\ th'[t].res = "ok"

\* C16: from a truncate_table(T) that succeeded until the next insert into T,
\* every get on T that returns, for any row key, returns an empty column map.
C16_TruncateEmptiesTable ==
    [][\A t \in Threads :
         /\ ReturnsOk(t, "execute") /\ th[t].operation_type = "get"
         /\ truncated[th[t].table].since
         => th'[t].value = "empty"]_vars

\* C16's case: a get of a row that was there when truncate_table succeeded has
\* returned an empty column map.
C16_Witness ==
    \E t \in Threads :
        /\ th[t].pc = "done" /\ th[t].op = "execute" /\ th[t].res = "ok"
        /\ th[t].operation_type = "get" /\ th[t].value = "empty"
        /\ truncated[th[t].table].since
        /\ th[t].key \in truncated[th[t].table].found

\* The thread's call of check_table_exists returns in this step.
CheckReturns(t) ==
    th[t].op = "check_table_exists" /\ th[t].pc # "done" /\ th'[t].pc = "done"

\* C17 as the spec states it: check_table_exists(T) returns Ok(true) exactly
\* when T exists on the backend.
C17_ExistsIffOnBackend ==
    [][\A t \in Threads :
         CheckReturns(t)
         => /\ th'[t].res = "ok"
            /\ th'[t].exists = (th[t].table \in backend_tables)]_vars

\* C17, amended: check_table_exists(T) always returns Ok; it returns Ok(true)
\* exactly when its SELECT was executed by a backend, which needs a member in
\* the server roster and a table T on the backend; so it returns Ok(false) for
\* a table that does not exist (after a drop), and also for one that exists
\* when the statement could not be executed.
C17_ExistsIffSelectSucceeds ==
    [][\A t \in Threads :
         CheckReturns(t)
         => /\ th'[t].res = "ok"
            /\ th'[t].exists = (th'[t].sql_res = "ok")
            /\ th'[t].exists
               => th[t].table \in backend_tables /\ server_roster # {}
            /\ th[t].table \notin backend_tables => ~th'[t].exists]_vars

\* C17's case: check_table_exists has answered false for a table that exists,
\* on a client without a member in its server roster.
C17_Witness ==
    \E t \in Threads :
        /\ th[t].pc = "done" /\ th[t].op = "check_table_exists"
        /\ th[t].res = "ok" /\ ~th[t].exists
        /\ th[t].sql_res = "NotFound"
        /\ th[t].table \in backend_tables

\* ---------------------------------------------------------------- shutdown

\* One thread is in turn a caller that looks tables up and the task that init
\* schedules (lines 1506-1512), each run of which is one call of
\* refresh_all_table_entries; the client is closed between two calls.
CloseConfig ==
    [BaseConfig EXCEPT !.threads = {1}, !.addrs = {"a"}, !.observers = {{"a"}},
                       !.leaders = {"a"}]

InitClose == Lifecycle(CloseConfig, TRUE, FALSE)

NextClose ==
    \/ \E t \in Threads :
         \/ CallGetOrRefresh(t) \/ GDone(t) \/ CallRefreshAll(t) \/ RNext(t)
         \/ GetOrRefreshStep(t) \/ SyncRefreshStep(t) \/ Return(t)
    \/ Close
    \/ Tick

SpecClose == InitClose /\ [][NextClose]_vars

\* The step in which the locator call of a refresh hands over a fresh entry
\* (lines 974-976 and 1011).
RefreshesEntry(t) ==
    \/ th[t].pc = "g_loop" /\ th'[t].pc = "g_insert"
    \/ th[t].pc = "g_final" /\ th'[t].pc = "g_exit" /\ th'[t].g_res = "ok"

MaxIndex == 10

Indices == -2 .. MaxIndex

\* The variants of the enum (part_func_type.rs, lines 19-31).
PartFuncTypes ==
    {"UNKNOWN", "HASH", "KEY", "KeyImplicit", "RANGE", "RangeColumns", "LIST",
     "KeyV2", "ListColumns", "HashV2", "KeyV3"}

\* from_i32 (lines 34-48).
from_i32(index) ==
    CASE index = 0 -> "HASH"
      [] index = 1 -> "KEY"
      [] index = 2 -> "KeyImplicit"
      [] index = 3 -> "RANGE"
      [] index = 4 -> "RangeColumns"
      [] index = 5 -> "LIST"
      [] index = 6 -> "KeyV2"
      [] index = 7 -> "ListColumns"
      [] index = 8 -> "HashV2"
      [] index = 9 -> "KeyV3"
      [] OTHER -> "UNKNOWN"

\* is_list_part (lines 50-52).
is_list_part(self) == self \in {"LIST", "ListColumns"}

\* A predicate that takes KEY for a key partitioning too.
is_key_part_with_KEY(self) == self \in {"KEY", "KeyImplicit", "KeyV2", "KeyV3"}

\* is_key_part (lines 54-56).
is_key_part(self) == self \in {"KeyImplicit", "KeyV2", "KeyV3"}

\* is_range_part (lines 58-60).
is_range_part(self) == self \in {"RANGE", "RangeColumns"}

\* is_hash_part (lines 62-64).
is_hash_part(self) == self \in {"HASH", "HashV2"}

\* A caller turns an index into a variant and asks the four predicates of it.
CallFromI32(t) ==
    /\ th[t].pc = "idle"
    /\ t \in config.threads
    /\ \E index \in Indices :
         LET self == from_i32(index)
         IN th' = [th EXCEPT ![t].pc = "done", ![t].op = "from_i32", ![t].res = "ok",
                      ![t].index = index, ![t].part_func_type = self,
                      ![t].holds = {k \in {"list", "key", "range", "hash"} :
                                      \/ k = "list" /\ is_list_part(self)
                                      \/ k = "key" /\ is_key_part(self)
                                      \/ k = "range" /\ is_range_part(self)
                                      \/ k = "hash" /\ is_hash_part(self)}]
    /\ UNCHANGED << now, config, backendVars, clientVars, cacheVars, perTableVars, queryVars,
                    refresh_failures >>

InitPart == Constructed /\ config = BaseConfig

NextPart == \E t \in Threads : CallFromI32(t) \/ Return(t)

SpecPart == InitPart /\ [][NextPart]_vars

\* The predicates the spec gives for a variant.
Classification(v) ==
    {k \in {"list", "key", "range", "hash"} :
       \/ k = "hash" /\ v \in {"HASH", "HashV2"}
       \/ k = "key" /\ v \in {"KeyImplicit", "KeyV2", "KeyV3"}
       \/ k = "range" /\ v \in {"RANGE", "RangeColumns"}
       \/ k = "list" /\ v \in {"LIST", "ListColumns"}}

\* C19: of the variant from_i32 returns, is_hash_part holds exactly for HASH
\* and HashV2, is_key_part exactly for KeyImplicit, KeyV2 and KeyV3,
\* is_range_part exactly for RANGE and RangeColumns, is_list_part exactly for
\* LIST and ListColumns; at most one predicate holds, and none of UNKNOWN and
\* KEY.
C19_PredicatesPartitionVariants ==
    \A t \in Threads :
        th[t].op = "from_i32" /\ th[t].pc = "done"
        => /\ th[t].part_func_type \in PartFuncTypes
           /\ th[t].holds = Classification(th[t].part_func_type)
           /\ Cardinality(th[t].holds) <= 1
           /\ th[t].part_func_type \in {"UNKNOWN", "KEY"} => th[t].holds = {}

\* One caller has classified KEY, for which no predicate holds, and the other
\* KeyV3, a key partitioning.
C19_Witness ==
    /\ th[1].op = "from_i32" /\ th[1].pc = "done"
    /\ th[1].part_func_type = "KEY" /\ th[1].holds = {}
    /\ th[2].op = "from_i32" /\ th[2].pc = "done"
    /\ th[2].part_func_type = "KeyV3" /\ th[2].holds = {"key"}

\* ------------------------------------------- failures under a held table mutex

\* Thread 1 executes single-row operations on the one table of one backend;
\* thread 2 looks the table up and refreshes its entry.
FailureConfig ==
    [BaseConfig EXCEPT !.addrs = {"a"}, !.observers = {{"a"}}, !.leaders = {"a"},
                       !.tables = {"t1"}, !.ops = {"execute"}, !.keys = {0},
                       !.rpc_retry_limit = 1]

InitFailure == Lifecycle(FailureConfig, TRUE, FALSE)

NextFailure ==
    \/ CallExecute(1)
    \/ CallGetOrRefresh(2)
    \/ \E t \in Threads :
         \/ ELoop(t) \/ EEntry(t) \/ ERpc(t) \/ ERetry(t)
         \/ OnTableOpFailureStep(t) \/ GDone(t)
         \/ GetOrRefreshStep(t) \/ SyncRefreshStep(t) \/ Return(t)
    \/ Tick

SpecFailure == InitFailure /\ [][NextFailure]_vars

\* The non-blocking refresh that on_table_op_failure started has come back
\* with Lock: another thread held the table's mutex at its try_lock.
RefreshSkipped(t) == th[t].pc = "f_refreshed" /\ th[t].g_res = "Lock"

\* C20: when the non-blocking refresh of on_table_op_failure has found the
\* table's mutex held by another thread, the next step of on_table_op_failure
\* is the table's failure counter, which it increments before it returns Ok to
\* the retry loop.
C20_SkippedRefreshStillCounts ==
    [][\A t \in Threads :
         RefreshSkipped(t) /\ th'[t] # th[t] => th'[t].pc = "f_counter"]_vars

\* ----------------------------------------- error codes in a response

\* The request of execute is answered with a code other than OB_SUCCESS in
\* this step (lines 1396-1404).
RespondsWithCode(t) ==
    /\ th[t].pc = "e_rpc" /\ th'[t].pc # "e_rpc"
    /\ th'[t].err.kind = "ObException"

\* C21: a response of a single-row operation whose code is retryable or
\* refresh-required is handled like every other error: execute enters
\* on_table_op_failure with it (and retries afterwards within the budget).
C21_ErrorCodeEntersFailureHandling ==
    [][\A t \in Threads :
         /\ RespondsWithCode(t)
         /\ th'[t].err.need_retry \/ th'[t].err.need_refresh
         => th'[t].pc = "f_start"]_vars

\* ------------------------------------------- the entry a refresh returns

\* C22: when get_or_refresh_table_entry returns Ok(e) for a table, with no
\* invalidate_table under way (SpecClose has none), table_locations holds an
\* entry for the table after the return, the entry of the final locator call
\* (lines 1010-1011) included.
C22_ReturnedEntryIsCached ==
    [][\A t \in Threads :
         GReturns(t) /\ th'[t].g_res = "ok"
         => table_locations'[th[t].g_table] # NoEntry]_vars

\* ----------------------------------------------------------- initialisation

\* Two threads call init() on a client as its construction left it.
InitInit == Constructed /\ config = BaseConfig

NextInit ==
    \/ \E t \in Threads : CallInit(t) \/ InitStep(t) \/ Return(t)
    \/ Tick

SpecInit == InitInit /\ [][NextInit]_vars

\* init_metadata has completed successfully: only then is the timestamp of the
\* metadata stored (line 1315; it is 0 after construction).
MetadataLoaded == last_refresh_metadata_ts # 0

\* C23: is_initialized() is true only after init_metadata has completed
\* successfully, and an init() that has returned Ok has returned after it.
C23_InitializedOnlyAfterLoad ==
    /\ initialized => MetadataLoaded
    /\ \A t \in Threads :
         th[t].op = "init" /\ th[t].pc = "done" /\ th[t].res = "ok" => MetadataLoaded

\* ------------------------------------------------- the failure counter

\* The step of on_table_op_failure that adds to the counter (line 341).
AddsFailure(t) == th[t].pc = "f_add" /\ th'[t].pc # "f_add"

\* The step starts the blocking refresh of on_table_op_failure (line 345).
StartsBlockingRefresh(t) ==
    /\ th'[t].pc = "g_fast" /\ th'[t].g_ret = "f_blocked"
    /\ th'[t].g_refresh /\ th'[t].g_blocking /\ th'[t].g_table = th[t].table

\* C24 as claimed: the failure that brings the table's counter to
\* runtime_continuous_failure_ceiling starts the blocking refresh.
C24_CeilingthFailureRefreshes ==
    [][\A t \in Threads :
         /\ AddsFailure(t)
         /\ counter_value'[th[t].ctr] = config.runtime_continuous_failure_ceiling
         => StartsBlockingRefresh(t)]_vars

\* C24: on_table_op_failure adds one to the table's counter whenever it gets
\* to the counter (it does not when its non-blocking refresh returned an error);
\* the blocking refresh starts exactly when the counter was already at the
\* ceiling or above before the addition; when that refresh returns Ok the
\* counter is set to zero, and when it fails the counter stays as it is and
\* the operation returns its error.
C24_FailureAfterCeilingRefreshes ==
    [][\A t \in Threads :
         /\ AddsFailure(t)
            => /\ counter_value'[th[t].ctr]
                      = Min(counter_value[th[t].ctr] + 1, MaxCount)
               /\ StartsBlockingRefresh(t)
                      <=> counter_value[th[t].ctr]
                             >= config.runtime_continuous_failure_ceiling
         /\ th[t].pc = "f_blocked" /\ th'[t].pc # "f_blocked"
            => IF th[t].g_res = "ok"
               THEN counter_value'[th[t].ctr] = 0 /\ th'[t].pc = "e_retry"
               ELSE /\ counter_value' = counter_value
                    /\ th'[t].pc = "done" /\ th'[t].res = th[t].err.kind
         /\ th[t].pc = "f_refreshed" /\ th'[t].pc # "f_refreshed" /\ th[t].g_res # "ok"
            => /\ counter_value' = counter_value
               /\ th'[t].pc = "done"]_vars

\* C24's case: the blocking refresh that the failure after the ceiling started
\* has returned Ok, and the counter, one above the ceiling, is about to be
\* cleared.
C24_Witness ==
    \E t \in Threads :
        /\ th[t].pc = "f_blocked" /\ th[t].g_res = "ok"
        /\ counter_value[th[t].ctr] = config.runtime_continuous_failure_ceiling + 1

\* ------------------------------------- errors of on_table_op_failure

\* on_table_op_failure returns an error in this step: one of its two refreshes
\* has failed (the ? at lines 320 and 345).
FailureHandlingFails(t) ==
    /\ th[t].pc \in {"f_refreshed", "f_blocked"}
    /\ th'[t].pc # th[t].pc
    /\ th[t].g_res # "ok"

\* C25: when on_table_op_failure returns an error during execute or
\* execute_batch, the operation returns in that step, with the error of the
\* failed attempt and not with the one of on_table_op_failure, and no attempt
\* follows, whatever need_retry() says and whatever is left of the budget.
C25_OriginalErrorNoRetry ==
    [][\A t \in Threads :
         th[t].op \in {"execute", "execute_batch"} /\ FailureHandlingFails(t)
         => /\ th'[t].pc = "done"
            /\ th'[t].res = th[t].err.kind
            /\ th'[t].res # th[t].g_res
            /\ th'[t].attempt = th[t].attempt]_vars

\* C25's case: an operation has returned the error of an attempt that was
\* retryable, with attempts left; only a failed on_table_op_failure ends the
\* loop so (an error code in a response does too, and is left out here).
C25_Witness ==
    \E t \in Threads :
        /\ CheckStatus = "ok"
        /\ th[t].op = "execute_batch" /\ th[t].pc = "done"
        /\ th[t].res = th[t].err.kind /\ th[t].res \notin {"ok", "ObException"}
        /\ th[t].err.need_retry
        /\ th[t].attempt < config.rpc_retry_limit

\* ------------------------------------------ the frame of a rejected call

\* C26: no step of a single-row or batch operation on a client that is not
\* initialised or is closed changes the client: no failure counter is created
\* or incremented, no table entry and no metadata is refreshed (no mutex is
\* registered or taken for it), and no second attempt is made.
C26_RejectedChangesNothing ==
    [][\A t \in Threads :
         /\ th[t].op \in {"execute", "execute_batch"}
         /\ CheckStatus # "ok"
         /\ th'[t] # th[t]
         => /\ UNCHANGED << clientVars, cacheVars, perTableVars, refresh_failures >>
            /\ th'[t].attempt <= 1]_vars

\* ------------------------------------- concurrent add_row_key_element

\* Two threads register row-key columns; no table is invalidated.
RowKeyRaceConfig == [BaseConfig EXCEPT !.column_lists = ColumnLists]

InitRowKeyRace == Constructed /\ config = RowKeyRaceConfig

NextRowKeyRace ==
    \E t \in Threads :
        CallAddRowKeyElement(t) \/ ACheck(t) \/ AInsert(t) \/ Return(t)

SpecRowKeyRace == InitRowKeyRace /\ [][NextRowKeyRace]_vars

\* C27: under every interleaving of add_row_key_element calls, a row-key
\* element map that is present for a table is never replaced by another map.
C27_MapNeverReplaced ==
    [][\A tb \in Tables :
         table_row_key_element[tb].present
         => /\ table_row_key_element'[tb].present
            /\ table_row_key_element'[tb].map = table_row_key_element[tb].map]_vars

\* ------------------------------------------ concurrent metadata refreshes

\* Two threads call sync_refresh_metadata on an initialised client whose
\* directory lists one observer or two.
SyncConfig == [BaseConfig EXCEPT !.observers = {{"a"}, {"a", "b"}}]

InitSync == \E active \in SUBSET SyncConfig.addrs : LoadedClient(SyncConfig, TRUE, FALSE, active)

NextSync ==
    \/ \E t \in Threads :
         \/ CallSyncRefreshMetadata(t) \/ SyncRefreshStep(t) \/ SDone(t) \/ Return(t)
    \/ Tick

SpecSync == InitSync /\ [][NextSync]_vars

\* The thread is between taking refresh_metadata_mutex and releasing it.
InReload(t) ==
    th[t].pc \in {"s_recheck", "s_ocp", "s_root", "s_roster", "s_reset", "s_ts"}

\* The call returns without having reloaded (lines 1190-1194 and 1198-1202).
CutShort(t) ==
    th[t].pc \in {"s_check", "s_recheck"} /\ th'[t].pc = th[t].s_ret

\* C28: at most one thread at a time is past the lock of sync_refresh_metadata,
\* and it holds refresh_metadata_mutex; a call starts to reload only when, at
\* its look under the mutex, metadata_refresh_interval has passed since the
\* last reload; and a call that finds the metadata refreshed within the
\* interval, before or after the lock, returns Ok and leaves the directory,
\* the roster, the registry and the timestamp as they are.  So of the calls
\* that wait for the mutex while one reloads successfully, none reloads
\* within the interval.
C28_OneReloadPerInterval ==
    /\ [](\A t, u \in Threads :
            InReload(t) => /\ refresh_metadata_mutex = t
                           /\ (InReload(u) => u = t))
    /\ [][\A t \in Threads :
            /\ (th[t].pc # "s_ocp" /\ th'[t].pc = "s_ocp")
               => /\ th[t].pc = "s_recheck"
                  /\ now - last_refresh_metadata_ts >= config.metadata_refresh_interval
            /\ (th[t].pc \in {"s_check", "s_recheck"} /\ th'[t].pc # th[t].pc
                  /\ now - last_refresh_metadata_ts < config.metadata_refresh_interval)
               => CutShort(t)
            /\ CutShort(t)
               => /\ th'[t].s_res = "ok"
                  /\ now - last_refresh_metadata_ts < config.metadata_refresh_interval
                  /\ UNCHANGED << ocp_model, server_roster, max_priority, table_roster,
                                  connection_pools, last_refresh_metadata_ts >>]_vars

\* C28's case: one call has reloaded and returned Ok, and the other, which
\* waited for the mutex meanwhile, is at its second look and finds the
\* metadata refreshed.
C28_Witness ==
    \E t, u \in Threads :
        /\ t # u
        /\ th[t].op = "sync_refresh_metadata" /\ th[t].pc = "done" /\ th[t].res = "ok"
        /\ last_refresh_metadata_ts > StartTime
        /\ th[u].pc = "s_recheck"
        /\ IsAlreadyRefreshed

\* ------------------------------------------------- a reload that fails

\* The call returns an error from its reload in this step.
ReloadFails(t) ==
    /\ th[t].pc \in {"s_ocp", "s_root", "s_roster"}
    /\ th'[t].pc = th[t].s_ret
    /\ th'[t].s_res = "err"

\* C29 as stated: when sync_refresh_metadata returns an error, the registry of
\* backend handles, the server roster, the directory model and the timestamp
\* are what they were when the call took refresh_metadata_mutex.
C29_FailedReloadChangesNothing ==
    [][\A t \in Threads :
        ReloadFails(t)
        => /\ ocp_model' = th[t].before.ocp_model
           /\ table_roster' = th[t].before.table_roster
           /\ server_roster' = th[t].before.server_roster
           /\ last_refresh_metadata_ts' = th[t].before.ts]_vars

\* C29: when sync_refresh_metadata returns an error, the server roster and the
\* timestamp are what they were before the call; the directory model is what
\* it was if the directory load failed, and the one just loaded otherwise; and
\* the registry of backend handles has lost no handle, is what it was unless
\* the creation of a handle failed, and has gained at most handles of active
\* replicas of the root-server entry.
C29_FailedReloadKeepsRosterAndTime ==
    [][\A t \in Threads :
        ReloadFails(t)
        => /\ server_roster' = th[t].before.server_roster
           /\ last_refresh_metadata_ts' = th[t].before.ts
           /\ th[t].pc = "s_ocp" => ocp_model' = th[t].before.ocp_model
           /\ th[t].pc # "s_ocp" => ocp_model' \in config.observers
           /\ th[t].before.table_roster \subseteq table_roster'
           /\ th[t].pc # "s_roster" => table_roster' = th[t].before.table_roster
           /\ table_roster' \subseteq th[t].before.table_roster \cup ActiveAddrs(th[t].root)]_vars

\* C29's case: a reload has failed after it had added a handle, and no reload
\* is under way: the registry holds a handle the server roster does not list.
C29_Witness ==
    \E t \in Threads :
        /\ th[t].op = "sync_refresh_metadata" /\ th[t].pc = "done" /\ th[t].res = "err"
        /\ \A u \in Threads : ~InReload(u)
        /\ table_roster # server_roster

\* ------------------------------------------------- the refresh of one entry

\* Two threads call get_or_refresh_table_entry for one table of a deployment
\* with one address, which the roster holds or not.
RefreshConfig ==
    [BaseConfig EXCEPT !.tables = {"t1"}, !.addrs = {"a"}, !.observers = {{"a"}},
                       !.leaders = {"a"}]

InitRefresh ==
    \E active \in SUBSET RefreshConfig.addrs : LoadedClient(RefreshConfig, TRUE, FALSE, active)

NextRefresh ==
    \/ \E t \in Threads :
         \/ CallGetOrRefresh(t) \/ GetOrRefreshStep(t) \/ SyncRefreshStep(t)
         \/ GDone(t) \/ Return(t)
    \/ Tick

SpecRefresh == InitRefresh /\ [][NextRefresh]_vars

\* WF: a thread inside the call keeps running (the locator and the directory
\* answer or time out, the sleep ends).  SF on the two lock() calls: a holder
\* always unlocks, and a thread that waits gets the mutex at one of the
\* unlocks.
FairSpecRefresh ==
    /\ SpecRefresh
    /\ \A t \in Threads :
         /\ WF_vars(GetOrRefreshStep(t) \/ SyncRefreshStep(t))
         /\ SF_vars(GLock(t))
         /\ SF_vars(SLock(t))

\* The thread is in the loop of the refresh (lines 970-1006), the metadata
\* refresh of a turn included.
InLoop(t) ==
    \/ th[t].pc \in {"g_loop", "g_insert", "g_synced"}
    \/ InGetOrRefresh(t) /\ th[t].s_ret = "g_synced"
          /\ th[t].pc \notin {"g_final", "g_exit", "g_fast", "g_mutex", "g_lock", "g_dcheck"}

\* The thread takes a step of its own.
Steps(t) == th'[t] # th[t]

\* What C30 says of the loop, of the first success and of the mutex: the
\* number of turns is the smaller of table_entry_refresh_try_times and the
\* roster size, the loop makes no more locator calls than that and the call
\* one more at most, a success in the loop is inserted and returned with no
\* further locator call, the attempts used up lead to sync_refresh_metadata,
\* and a thread outside the call holds no per-table mutex.
LoopAndMutex ==
    /\ [](\A t \in Threads :
            /\ InLoop(t) => th[t].locates <= th[t].retry_times
            /\ th[t].locates <= th[t].retry_times + 1
            /\ ~InGetOrRefresh(t) => \A m \in MutexIds : mutex_holder[m] # t)
    /\ [][\A t \in Threads :
            /\ (th[t].pc = "g_dcheck" /\ th'[t].pc = "g_loop")
               => th'[t].retry_times =
                      Min(config.table_entry_refresh_try_times, Cardinality(server_roster))
            /\ (th[t].pc = "g_insert" /\ Steps(t))
               => /\ table_locations'[th[t].g_table] = th[t].g_entry
                  /\ th'[t].pc = "g_exit" /\ th'[t].g_res = "ok"
                  /\ th'[t].g_entry = th[t].g_entry
                  /\ th'[t].locates = th[t].locates
            /\ (th[t].pc = "g_loop" /\ Steps(t) /\ th[t].retry_num >= th[t].retry_times)
               => /\ th[t].locates = th[t].retry_times
                  /\ th'[t].pc = "s_check" /\ th'[t].s_ret = "g_final"
            /\ (th[t].pc = "g_exit" /\ Steps(t))
               => /\ GReturns(t)
                  /\ th'[t].g_res = th[t].g_res
                  /\ mutex_holder'[th[t].mtx] = 0]_vars

\* Every call returns.
RefreshTerminates ==
    \A t \in Threads : InGetOrRefresh(t) ~> ~InGetOrRefresh(t)

LoopConfig == [BaseConfig EXCEPT !.threads = {1}, !.tables = {"t1"}, !.leaders = {"a"}]

InitLoop == Lifecycle(LoopConfig, TRUE, FALSE)

NextLoop ==
    \/ \E t \in Threads :
         \/ CallGetOrRefresh(t) \/ GetOrRefreshStep(t) \/ SyncRefreshStep(t)
         \/ GDone(t) \/ Return(t)
    \/ Tick

SpecLoop == InitLoop /\ [][NextLoop]_vars

\* An attempt of the loop fails in this step (lines 986-1005).
LocatorFails(t) ==
    /\ th[t].pc = "g_loop" /\ Steps(t)
    /\ th[t].retry_num < th[t].retry_times
    /\ th'[t].pc # "g_insert"

\* A locator call succeeds in this step, in the loop or after it.
LocatorSucceeds(t) ==
    \/ th[t].pc = "g_loop" /\ th'[t].pc = "g_insert"
    \/ th[t].pc = "g_final" /\ th'[t].pc = "g_exit" /\ th'[t].g_res = "ok"

\* The failed attempt goes on to sync_refresh_metadata.
CallsSyncInLoop(t) == th'[t].pc = "s_check" /\ th'[t].s_ret = "g_synced"

\* What C31 says of the steps after the failure: back from a
\* sync_refresh_metadata that returned Ok the counter is zero and the loop goes
\* on with its next attempt, and a successful locator call leaves the counter
\* at zero.
ResetsAndGoesOn ==
    \A t \in Threads :
        /\ (th[t].pc = "g_synced" /\ Steps(t) /\ th[t].s_res # "err")
           => /\ refresh_failures' = 0
              /\ th'[t].pc = "g_loop"
              /\ th'[t].retry_num = th[t].retry_num + 1
              /\ th'[t].retry_times = th[t].retry_times
        /\ LocatorSucceeds(t) => refresh_failures' = 0

\* C31 as stated: the failed attempt that brings the counter of failed
\* table-entry refreshes to table_entry_refresh_continuous_failure_ceiling
\* calls sync_refresh_metadata, which is followed by a counter of zero and the
\* rest of the loop; a successful locator call sets the counter to zero.
C31_FailureReachingCeilingSyncs ==
    [][/\ \A t \in Threads :
            (LocatorFails(t)
               /\ refresh_failures' = config.table_entry_refresh_continuous_failure_ceiling)
            => CallsSyncInLoop(t)
       /\ \A t \in Threads :
            (th[t].pc = "g_synced" /\ Steps(t))
            => refresh_failures' = 0 /\ th'[t].pc = "g_loop"
       /\ ResetsAndGoesOn]_vars

\* C31: every failed attempt of the loop adds one to the counter; the attempt
\* that finds the counter at the ceiling or above (the failure after the one
\* that brought it there) calls sync_refresh_metadata, and no other does; if
\* that call returns Ok the counter is set to zero and the loop goes on with
\* its remaining attempts, if it returns an error the refresh returns an error
\* and the counter stays; a successful locator call sets the counter to zero.
C31_FailureAtCeilingSyncs ==
    [][/\ \A t \in Threads :
            LocatorFails(t)
            => /\ refresh_failures' = Min(refresh_failures + 1, MaxCount)
               /\ CallsSyncInLoop(t)
                    <=> refresh_failures
                          >= config.table_entry_refresh_continuous_failure_ceiling
       /\ \A t \in Threads :
            (th[t].pc = "g_synced" /\ Steps(t) /\ th[t].s_res = "err")
            => /\ refresh_failures' = refresh_failures
               /\ th'[t].pc = "g_exit" /\ th'[t].g_res = "err"
       /\ ResetsAndGoesOn]_vars

\* C31's case: an attempt of the loop failed with the counter at the ceiling,
\* the metadata was refreshed and the counter set to zero, and the loop has an
\* attempt left.
C31_Witness ==
    \E t \in Threads :
        /\ th[t].pc = "g_loop"
        /\ th[t].retry_num >= 1
        /\ th[t].retry_num < th[t].retry_times
        /\ th[t].locates = th[t].retry_num
        /\ refresh_failures = 0

\* ------------------------------------------------------- waiting for locks

\* Two threads use a constructed client in every way that takes a mutex.
\* Thread 1 is the application: init, single-row operations, batches, queries
\* and invalidate_table; thread 2 is the scheduled refresher, which the init
\* of the outer client starts.  close is called by Drop (line 1446): it has
\* the client to itself and no call follows it.  An entry is
\* stale as soon as it is loaded, so that every refresh takes the table's
\* mutex, and a failed attempt is not retried.
LockConfig ==
    [BaseConfig EXCEPT !.addrs = {"a"}, !.observers = {{"a"}}, !.leaders = {"a"},
                       !.tables = {"t1"}, !.keys = {0},
                       !.ops = {"execute", "execute_batch", "execute_query"},
                       !.batches = {[ops |-> << 0 >>, atomic |-> FALSE]},
                       !.table_entry_refresh_interval_base = 0,
                       !.rpc_retry_limit = 0]

InitLock == Constructed /\ config = LockConfig

NextLock ==
    \/ \E t \in Threads :
         \/ ~closed /\ CallInit(t)
         \/ InitStep(t)
         \/ ELoop(t) \/ EEntry(t) \/ ERpc(t) \/ ERetry(t) \/ BEntry(t) \/ BRpc(t)
         \/ QueryStep(t)
         \/ OnTableOpFailureStep(t)
         \/ GetOrRefreshStep(t) \/ SyncRefreshStep(t)
         \/ InvalidateStep(t)
         \/ RNext(t)
         \/ Return(t)
    \/ ~closed /\ CallExecute(1)
    \/ ~closed /\ CallExecuteBatch(1)
    \/ ~closed /\ CallExecuteQuery(1)
    \/ ~closed /\ CallInvalidate(1)
    \/ ~closed /\ CallRefreshAll(2)
    \/ Close

SpecLock == InitLock /\ [][NextLock]_vars

\* The threads that hold the mutex the thread is waiting for: status_mutex
\* (line 1151), refresh_metadata_mutex (lines 1196 and 1275) or a per-table
\* mutex (lines 925 and 1064).  try_lock (line 927) does not wait.
WaitsFor(t) ==
    CASE th[t].pc = "n_lock" -> {u \in Threads : HoldsStatusMutex(u)}
      [] th[t].pc \in {"s_lock", "n_mlock"} -> {refresh_metadata_mutex} \cap Threads
      [] th[t].pc = "i_lock" -> {mutex_holder[th[t].mtx]} \cap Threads
      [] th[t].pc = "g_lock" /\ th[t].g_blocking -> {mutex_holder[th[t].mtx]} \cap Threads
      [] OTHER -> {}

TableMutexesOf(t) == {m \in MutexIds : mutex_holder[m] = t}

\* C33 as stated: no thread holds two per-table mutexes at once, and no thread
\* holds refresh_metadata_mutex together with a per-table mutex that it took
\* first.
C33_MetadataMutexOutermost ==
    \A t \in Threads :
        /\ Cardinality(TableMutexesOf(t)) <= 1
        /\ refresh_metadata_mutex = t => TableMutexesOf(t) = {}

\* C33: no thread holds two per-table mutexes at once, and refresh_metadata_mutex
\* is the innermost mutex: a thread takes it while it holds a per-table mutex
\* or status_mutex, and no thread takes or waits for a per-table mutex or
\* status_mutex while it holds refresh_metadata_mutex.
C33_MetadataMutexInnermost ==
    /\ [](\A t \in Threads :
            /\ Cardinality(TableMutexesOf(t)) <= 1
            /\ refresh_metadata_mutex = t
               => th[t].pc \notin {"g_lock", "i_lock", "n_lock"})
    /\ [][\A t \in Threads :
            /\ TableMutexesOf(t)' # TableMutexesOf(t) /\ TableMutexesOf(t)' # {}
               => refresh_metadata_mutex # t /\ ~HoldsStatusMutex(t)
            /\ HoldsStatusMutex(t)' /\ ~HoldsStatusMutex(t)
               => refresh_metadata_mutex # t /\ TableMutexesOf(t) = {}]_vars

\* C33's case: a thread that refreshes an entry holds the table's mutex and,
\* inside it, refresh_metadata_mutex.
C33_Witness ==
    \E t \in Threads :
        /\ refresh_metadata_mutex = t
        /\ th[t].locked
        /\ TableMutexesOf(t) = {th[t].mtx}
        /\ InGetOrRefresh(t)

\* ------------------------------------------------- the lock-free fast path

\* The cache holds an entry the call can use as it is: refresh is false, or
\* the entry is not stale.
UsableFromCache(t) ==
    LET e == table_locations[th[t].g_table]
    IN  e # NoEntry /\ (~th[t].g_refresh \/ ~NeedRefresh(e))

\* C34: a get_or_refresh_table_entry that finds, at its first look, an entry
\* for the table with refresh false (however old the entry is), or a fresh
\* entry with refresh true, returns that entry at once: it takes no mutex,
\* makes no locator call and changes no map; otherwise it goes on to the
\* table's mutex.  execute and execute_batch ask for the entry of an attempt
\* with refresh false.
C34_FastPathReturnsCached ==
    [][\A t \in Threads :
        /\ (th[t].pc = "g_fast" /\ Steps(t))
           => IF UsableFromCache(t)
              THEN /\ th'[t].pc = th[t].g_ret
                   /\ th'[t].g_res = "ok"
                   /\ th'[t].g_entry = table_locations[th[t].g_table]
                   /\ ~th'[t].locked /\ th'[t].locates = th[t].locates
                   /\ UNCHANGED << clientVars, cacheVars, perTableVars, refresh_failures >>
              ELSE th'[t].pc = "g_mutex"
        /\ (th[t].pc = "e_loop" /\ th'[t].pc = "g_fast")
           => /\ th[t].op \in {"execute", "execute_batch"}
              /\ ~th'[t].g_refresh]_vars

\* C34's case: an execute asks with refresh false for an entry that is cached
\* and stale, and no mutex is held.
C34_Witness ==
    \E t \in Threads :
        /\ th[t].pc = "g_fast" /\ th[t].op = "execute" /\ ~th[t].g_refresh
        /\ table_locations[th[t].g_table] # NoEntry
        /\ NeedRefresh(table_locations[th[t].g_table])
        /\ \A m \in MutexIds : mutex_holder[m] = 0

\* ------------------------------------------------------- a batch retried

\* The partitions of the sub-batches the thread has sent.
SentParts(r) == {r.sent[i].part : i \in 1 .. Len(r.sent)}

\* C35: a retry of execute_batch keeps the batch it was called with, and the
\* attempt that follows buckets every operation of it again and sends one
\* sub-batch for each partition, those whose sub-batch its backend executed
\* in the failed attempt included.
C35_RetrySendsWholeBatch ==
    [][\A t \in Threads :
        /\ (th[t].op = "execute_batch" /\ th[t].pc = "e_retry" /\ th'[t].pc = "e_loop")
           => th'[t].batch = th[t].batch /\ th'[t].executed = th[t].executed
        /\ (th[t].op = "execute_batch" /\ th[t].pc = "e_entry" /\ th'[t].pc = "b_rpc"
              /\ th[t].attempt > 1)
           => LET e == th[t].g_entry
                  ops == th[t].batch.ops
              IN /\ th'[t].batch = th[t].batch
                 /\ SentParts(th'[t]) = PartitionsOf(e, th[t].batch)
                 /\ Len(th'[t].sent) = Cardinality(SentParts(th'[t]))
                 /\ \A i \in 1 .. Len(th'[t].sent) :
                      th'[t].sent[i].ops =
                          PartBatchOps(e, ops, Len(ops))[th'[t].sent[i].part]
                 /\ th[t].executed \subseteq SentParts(th'[t])
                 /\ th'[t].nsent = th[t].nsent + Len(th'[t].sent)]_vars

\* C35's case: the second attempt of a batch over two partitions has sent both
\* sub-batches, one of which was executed in the first attempt.
C35_Witness ==
    \E t \in Threads :
        /\ th[t].op = "execute_batch" /\ th[t].pc = "b_rpc"
        /\ th[t].attempt = config.rpc_retry_limit /\ th[t].attempt > 1
        /\ Len(th[t].sent) > 1
        /\ th[t].executed # {}
        /\ th[t].executed \subseteq SentParts(th[t])

\* --------------------------------------------- handles of a key range

\* The registry starts with the handles of any of the addresses.
InitHandles ==
    \E shape \in Shapes, active \in SUBSET RangeConfig.addrs :
        LoadedClient([RangeConfig EXCEPT !.catalog["t2"] = shape], TRUE, FALSE, active)

NextHandles ==
    \/ \E t \in Threads :
         \/ CallGetTables(t) \/ GetTablesStep(t)
         \/ GetOrRefreshStep(t) \/ SyncRefreshStep(t) \/ Return(t)
    \/ Tick

SpecHandles == InitHandles /\ [][NextHandles]_vars

\* The thread is in get_tables itself, not in a call it makes.
InGetTables(t) == th[t].pc \in {"l_entry", "l_pair", "l_synced", "l_retry"}

\* The next pair of get_tables names an address the registry has no handle for.
HandleMissing(t) ==
    /\ th[t].pc = "l_pair" /\ th[t].pairs # << >>
    /\ Head(th[t].pairs)[2] \notin table_roster

\* C36: get_tables, for a pair whose address has no handle, calls
\* sync_refresh_metadata, then get_or_refresh_table_entry with refresh = true,
\* and then looks once at the refreshed entry and the registry: the pair gets
\* the leader's handle and the loop goes on, or the call ends with NotFound
\* because the location, the leader or the handle is missing; no step of
\* get_tables changes the registry.
C36_MissingHandleOneRetry ==
    [][\A t \in Threads :
        /\ (HandleMissing(t) /\ Steps(t))
           => th'[t] = SCall(th[t], "l_synced")
        /\ (th[t].pc = "l_synced" /\ th[t].s_res = "ok" /\ Steps(t))
           => th'[t] = GCall(th[t], th[t].table, TRUE, TRUE, "l_retry")
        /\ (th[t].pc = "l_retry" /\ th[t].g_res = "ok" /\ Steps(t))
           => LET part_id == Head(th[t].pairs)[1]
                  leader == LeaderOf(th[t].g_entry, part_id)
              IN IF \/ part_id \notin PartIds(th[t].g_entry.shape)
                    \/ leader = "none"
                    \/ leader \notin table_roster
                 THEN th'[t].pc = "done" /\ th'[t].res = "NotFound"
                      /\ th'[t].handles = << >>
                 ELSE /\ th'[t].pc = "l_pair"
                      /\ th'[t].handles = Append(th[t].handles, << part_id, leader >>)
                      /\ th'[t].pairs = Tail(th[t].pairs)
        /\ (InGetTables(t) /\ Steps(t))
           => table_roster' = table_roster /\ connection_pools' = connection_pools]_vars

\* C36's case: after the metadata refresh and the refetch the registry still
\* has no handle for the leader, and get_tables has returned NotFound.
C36_Witness ==
    \E t \in Threads :
        /\ th[t].op = "get_tables" /\ th[t].pc = "done"
        /\ th[t].res = "NotFound"
        /\ th[t].msg = "ObTable not found in table_roster"

\* ------------------------------------------------ the staleness interval

\* Priorities of the backends around zero.
StalePriorities == {-2, -1, 0, 1}

\* One caller refreshes the entry of one table and, as the locator does, moves
\* the cached priority of the roster up and down.
StaleConfig ==
    [BaseConfig EXCEPT !.threads = {1}, !.tables = {"t1"}, !.leaders = {"a"},
                       !.priorities = StalePriorities]

InitStale ==
    \E pa, pb \in StalePriorities :
        Lifecycle([StaleConfig EXCEPT !.priority["a"] = pa, !.priority["b"] = pb],
                  TRUE, FALSE)

NextStale ==
    \/ \E t \in Threads :
         \/ CallGetOrRefresh(t) \/ GetOrRefreshStep(t) \/ SyncRefreshStep(t) \/ GDone(t)
         \/ CallUpgradeMaxPriority(t) \/ CallDowngradeMaxPriority(t)
         \/ CallMaxPriority(t) \/ CallReset(t)
         \/ ServerRosterStep(t) \/ Return(t)
    \/ Tick

SpecStale == InitStale /\ [][NextStale]_vars

\* The time passed is at least the interval.
AtLeast(passed, interval) == passed * interval.den >= interval.num

\* The first interval is no longer than the second.
NoLonger(i1, i2) == i1.num * i2.den <= i2.num * i1.den

\* need_refresh_table_entry answers by the interval of the clamped priority,
\* and a call with refresh = true returns a cached entry only when it is
\* younger than that interval.
StaleByInterval ==
    /\ \A tb \in Tables :
         table_locations[tb] # NoEntry
         => (NeedRefresh(table_locations[tb])
               <=> AtLeast(now - table_locations[tb].rt, IntervalMs(MaxPriority)))
    /\ \A t \in Threads :
         (th[t].pc = "g_done" /\ th[t].g_refresh /\ th[t].g_age >= 0)
         => ~AtLeast(th[t].g_age, IntervalMs(MaxPriority))

ElementConfig ==
    [BaseConfig EXCEPT !.threads = {1}, !.addrs = {"a"}, !.observers = {{"a"}},
                       !.leaders = {"a"}, !.tables = {"t2"}]

\* A client constructed in either mode; the application registers the map of
\* the table, or not, calls init and asks for the entry.
InitElement ==
    /\ Constructed
    /\ \E mode \in {"Normal", "HBase"} :
         config = [ElementConfig EXCEPT !.running_mode = mode]

NextElement ==
    \/ \E t \in Threads :
         \/ CallInit(t) \/ InitStep(t)
         \/ CallAddRowKeyElement(t) \/ ACheck(t) \/ AInsert(t)
         \/ CallGetOrRefresh(t) \/ GetOrRefreshStep(t) \/ SyncRefreshStep(t)
         \/ GDone(t) \/ Return(t)
    \/ Tick

SpecElement == InitElement /\ [][NextElement]_vars

\* The map a partitioned entry of the table carries is the one of the mode.
CarriesModeMap(tb, entry) ==
    (entry # NoEntry /\ IsPartitionTable(entry.shape))
    => IF config.running_mode = "HBase"
       THEN entry.rke = HBaseRowKeyElement
       ELSE table_row_key_element[tb].present
            /\ entry.rke = table_row_key_element[tb].map

\* Every entry cached or returned carries the map of the mode.
EntriesCarryModeMap ==
    /\ \A tb \in Tables : CarriesModeMap(tb, table_locations[tb])
    /\ \A t \in Threads :
         (th[t].pc = "g_done" /\ th[t].g_res = "ok")
         => CarriesModeMap(th[t].g_table, th[t].g_entry)

\* A locator call of the refresh for a table whose map is missing.
LoadsWithoutMap(t) ==
    /\ th[t].pc \in {"g_loop", "g_final"}
    /\ RowKeyElementMissing(th[t].g_table, table_locations[th[t].g_table])
    /\ Steps(t)

\* C38 as the spec states it: in Normal mode the load of a partitioned entry
\* without a registered map caches nothing and fails, with a PartitionError
\* when the locator itself answered; in HBase mode every partitioned entry
\* carries {K:0, Q:1, T:2}.
C38_MissingMapPartitionError ==
    /\ []EntriesCarryModeMap
    /\ [][\A t \in Threads :
            LoadsWithoutMap(t)
            => /\ table_locations' = table_locations
               /\ th'[t].pc # "g_insert"
               /\ th'[t].pc = "g_exit"
                    => th'[t].g_res \in {"err", "PartitionError"}]_vars

\* C38, amended: in Normal mode the load of a partitioned entry without a
\* registered map caches nothing and fails, with a NotFound error when the
\* locator itself answered; in HBase mode every partitioned entry carries
\* {K:0, Q:1, T:2}.
C38_MissingMapNotFound ==
    /\ []EntriesCarryModeMap
    /\ [][\A t \in Threads :
            LoadsWithoutMap(t)
            => /\ table_locations' = table_locations
               /\ th'[t].pc # "g_insert"
               /\ th'[t].pc = "g_exit"
                    => th'[t].g_res \in {"err", "NotFound"}]_vars

\* C38's case: in Normal mode, with no map registered, the refresh of the
\* partitioned table has returned NotFound and the cache has no entry.
C38_Witness ==
    \E t \in Threads :
        /\ config.running_mode = "Normal"
        /\ th[t].pc = "g_done" /\ th[t].g_res = "NotFound"
        /\ IsPartitionTable(config.catalog[th[t].g_table])
        /\ ~table_row_key_element[th[t].g_table].present
        /\ table_locations[th[t].g_table] = NoEntry

\* ------------------------------------------------------ point resolution

\* The partitionings of a table entry: those of Shapes, level Two without its
\* first or without both descriptors, and a partitioned entry without
\* partition info.
PointShapes == Shapes \cup {"two_nofirst", "two_nodesc", "noinfo"}

\* One caller resolves row keys of one table: keys of every bucket and a key
\* the descriptors fail on.
PointConfig ==
    [BaseConfig EXCEPT !.threads = {1}, !.tables = {"t2"}, !.leaders = {"ab"},
                       !.keys = {-1, 0, 1, 2, 3}]

InitPoint ==
    \E shape \in PointShapes :
        Lifecycle([PointConfig EXCEPT !.catalog["t2"] = shape], TRUE, FALSE)

NextPoint ==
    \/ \E t \in Threads :
         \/ CallGetTable(t) \/ TEntry(t)
         \/ GetOrRefreshStep(t) \/ SyncRefreshStep(t) \/ Return(t)
    \/ Tick

SpecPoint == InitPoint /\ [][NextPoint]_vars

\* get_table returns in this step, with the table entry it asked for.
ResolvesPoint(t) ==
    th[t].pc = "t_entry" /\ th[t].g_res = "ok" /\ th'[t].pc = "done"

\* The entries get_partition answers with a PartitionError of its own.
Unresolvable(shape, key) ==
    \/ shape \in {"one_nodesc", "two_nosub", "two_nofirst", "two_nodesc"}
    \/ shape \in {"unknown", "noinfo"}
    \/ shape = "two" /\ key < 0

\* C39: get_partition gives 0 for an entry that is not partitioned and for
\* level Zero, the id of the first descriptor for level One, the two ids
\* composed as (id1 << PART_ID_SHIFT) | id2 | MASK for level Two, and a
\* PartitionError and no id when a descriptor the level needs is absent, when
\* a descriptor of level Two fails, when the level is Unknown and when the
\* partitioned entry has no partition info.
C39_PointResolution ==
    [][\A t \in Threads :
         ResolvesPoint(t)
         => LET shape == th[t].g_entry.shape
                key == th[t].key
                id1 == key % 2
                id2 == (key \div 2) % 2
            IN /\ Unresolvable(shape, key)
                  => th'[t].res = "PartitionError" /\ th'[t].handles = << >>
               /\ th'[t].res = "PartitionError" => Unresolvable(shape, key)
               /\ th'[t].res = "ok"
                  => /\ shape \in {"plain", "zero"} => th'[t].part_id = 0
                     /\ shape = "hash2" => th'[t].part_id = id1
                     /\ shape = "two"
                        => th'[t].part_id = id1 * (2 ^ PART_ID_SHIFT) + id2 + MASK]_vars

\* C39's case: level Two with both descriptors and a row key they fail on:
\* get_table has returned the PartitionError of get_partition.
C39_Witness ==
    \E t \in Threads :
        /\ th[t].pc = "done" /\ th[t].op = "get_table"
        /\ config.catalog[th[t].table] = "two"
        /\ th[t].key < 0
        /\ th[t].res = "PartitionError"

\* ------------------------------------------------------ upgrade to zero

\* The thread is in upgrade_max_priority(0).
UpgradesToZero(t) == th[t].op = "upgrade_max_priority" /\ th[t].priority = 0

\* C40 as the spec states it: when upgrade_max_priority(0) returns, the cached
\* max_priority is 0, whatever it was.
C40_UpgradeZeroForcesZero ==
    [][\A t \in Threads :
         (UpgradesToZero(t) /\ th[t].pc \in {"u_load", "u_zero"} /\ th'[t].pc = "done")
         => max_priority' = 0]_vars

\* C40, amended: upgrade_max_priority(0) stores 0 when the cached value it
\* loads is below 0, without looking at the members, and returns with the
\* cached value as it is when that value is 0 or above.
C40_UpgradeZeroRaisesToZero ==
    [][\A t \in Threads :
         (UpgradesToZero(t) /\ Steps(t))
         => /\ th[t].pc = "u_load"
               => /\ max_priority' = max_priority
                  /\ th'[t].p = max_priority
                  /\ th'[t].pc = IF max_priority >= 0 THEN "done" ELSE "u_zero"
            /\ th[t].pc = "u_zero"
               => th[t].p < 0 /\ max_priority' = 0 /\ th'[t].pc = "done"]_vars

\* C40's case: upgrade_max_priority(0) has returned from a cached value above
\* zero, and the cached value is what it was.
C40_Witness ==
    \E t \in Threads :
        /\ th[t].pc = "done" /\ UpgradesToZero(t)
        /\ th[t].p > 0
        /\ max_priority = th[t].p
        /\ \A u \in Threads \ {t} : th[u].pc = "idle"

====
